---- MODULE Spec2Model ----
(***************************************************************************)
(* aws2openstack: Glue Catalog migration-readiness assessment.             *)
(*                                                                         *)
(* The module models                                                       *)
(*   - the catalog normalizer and the readiness classifier                 *)
(*     (assessments/glue_catalog.py), as operators computed the way the    *)
(*     code computes them, exercised by SpecPure;                          *)
(*   - run_assessment with its paginated listings (SpecAssess);                 *)
(*   - the relational store behind AssessmentRepository and the query      *)
(*     tools of mcp_server/tools.py (SpecStore);                           *)
(*   - _save_assessment_to_db of cli.py (SpecSave).                        *)
(*                                                                         *)
(* Python strings that the code inspects character by character            *)
(* (startswith, in, upper, lower) are sequences of one-character strings.  *)
(* An optional value (None / missing key) is the empty sequence, a present *)
(* value x is <<x>>.                                                       *)
(***************************************************************************)
EXTENDS Integers, Sequences, FiniteSets, TLC

VARIABLES
    call,            \* SpecPure: the function call under test and its arguments
    ret,             \* SpecPure: the value the call returned
    pc,              \* run_assessment: position in the code
    databases,       \* run_assessment: the GlueDatabase list
    db_index,        \* run_assessment: index of the database whose tables are listed
    tables,          \* list_tables: the tables collected so far for that database
    all_tables,      \* run_assessment: all_tables
    next_token,      \* list_databases / list_tables: next_token
    pages_fetched,   \* list_databases / list_tables: calls made by the loop under way
    glue_calls,      \* list_databases / list_tables: what the Glue client was sent and
                     \* what it answered, call by call, in the loop under way
    report,          \* run_assessment: the AssessmentReport returned
    assessments,     \* store: committed rows of table assessments
    glue_databases,  \* store: committed rows of table glue_databases
    glue_tables,     \* store: committed rows of table glue_tables
    tool_request,    \* query tools: the tool called and its arguments
    tool_response,   \* query tools: the JSON document returned
    save_pc,         \* _save_assessment_to_db: position in the code
    save_report,     \* _save_assessment_to_db: the report argument
    save_db,         \* _save_assessment_to_db: index of db_model and its saved row
    save_table,      \* _save_assessment_to_db: index of table_model
    session,         \* _save_assessment_to_db: the session and its uncommitted rows
    save_result,     \* _save_assessment_to_db: the id returned or the exception raised
    cli              \* assess glue-catalog: options, position, steps taken, outcome

pureVars == <<call, ret>>
assessVars ==
    <<pc, databases, db_index, tables, all_tables, next_token, pages_fetched,
      glue_calls, report>>
storeVars == <<assessments, glue_databases, glue_tables>>
toolVars == <<tool_request, tool_response>>
saveVars == <<save_pc, save_report, save_db, save_table, session, save_result>>
cliVars == <<cli>>
vars == <<call, ret, pc, databases, db_index, tables, all_tables, next_token,
          pages_fetched, glue_calls, report, assessments, glue_databases, glue_tables, tool_request,
          tool_response, save_pc, save_report, save_db, save_table, session, save_result,
          cli>>

-----------------------------------------------------------------------------
(* Optional values *)

None == <<>>
Some(x) == <<x>>
IsNone(o) == o = <<>>
\* dict.get(key, default)
GetOr(o, default) == IF o = <<>> THEN default ELSE o[1]

-----------------------------------------------------------------------------
(* Character strings *)

LowerCase == <<"a", "b", "c", "d", "e", "f", "g", "h", "i", "j", "k", "l", "m", "n", "o", "p", "q", "r", "s", "t", "u", "v", "w", "x", "y", "z">>
UpperCase == <<"A", "B", "C", "D", "E", "F", "G", "H", "I", "J", "K", "L", "M", "N", "O", "P", "Q", "R", "S", "T", "U", "V", "W", "X", "Y", "Z">>

UpperChar(c) ==
    IF \E i \in 1..Len(LowerCase) : LowerCase[i] = c
    THEN UpperCase[CHOOSE i \in 1..Len(LowerCase) : LowerCase[i] = c]
    ELSE c
LowerChar(c) ==
    IF \E i \in 1..Len(UpperCase) : UpperCase[i] = c
    THEN LowerCase[CHOOSE i \in 1..Len(UpperCase) : UpperCase[i] = c]
    ELSE c
\* str.upper() and str.lower()
upper(s) == [i \in 1..Len(s) |-> UpperChar(s[i])]
lower(s) == [i \in 1..Len(s) |-> LowerChar(s[i])]
\* s.startswith(prefix)
startswith(s, prefix) ==
    /\ Len(prefix) <= Len(s)
    /\ SubSeq(s, 1, Len(prefix)) = prefix
\* sub in s
contains(s, sub) ==
    \E i \in 1..(Len(s) - Len(sub) + 1) : SubSeq(s, i, i + Len(sub) - 1) = sub

PrefixS3 == <<"s", "3", ":", "/", "/">>
LitIceberg == <<"I", "C", "E", "B", "E", "R", "G">>
LitParquet == <<"p", "a", "r", "q", "u", "e", "t">>
LitOrc == <<"o", "r", "c">>

(* Sample inputs *)
LocS3 == <<"s", "3", ":", "/", "/", "b", "/", "x">>
LocS3Upper == <<"S", "3", ":", "/", "/", "b", "/", "x">>
LocHdfs == <<"h", "d", "f", "s", ":", "/", "/", "x">>
LocS3NoSlash == <<"s", "3", ":", "/", "b">>
LocS3a == <<"s", "3", "a", ":", "/", "/", "b">>
LocPrefixOnly == <<"s", "3", ":", "/", "/">>
LocInnerS3 == <<"x", "/", "s", "3", ":", "/", "/", "b">>
LocEmpty == <<>>
TypeIcebergUpper == <<"I", "C", "E", "B", "E", "R", "G">>
TypeIcebergLower == <<"i", "c", "e", "b", "e", "r", "g">>
TypeIcebergMixed == <<"I", "c", "e", "b", "e", "r", "g">>
TypeHive == <<"h", "i", "v", "e">>
TypeIcebergSuffix == <<"I", "C", "E", "B", "E", "R", "G", "2">>
FmtParquetClass == <<"i", "o", ".", "p", "a", "r", "q", "u", "e", "t", ".", "M", "a", "p", "r", "e", "d", "P", "a", "r", "q", "u", "e", "t", "I", "n", "p", "u", "t", "F", "o", "r", "m", "a", "t">>
FmtParquetUpper == <<"P", "A", "R", "Q", "U", "E", "T">>
FmtOrcClass == <<"i", "o", ".", "o", "r", "c", ".", "O", "r", "c", "I", "n", "p", "u", "t", "F", "o", "r", "m", "a", "t">>
FmtOrcUpper == <<"O", "R", "C">>
FmtText == <<"m", "a", "p", "r", "e", "d", ".", "T", "e", "x", "t", "I", "n", "p", "u", "t", "F", "o", "r", "m", "a", "t">>
FmtOrcThenParquet == <<"o", "r", "c", ".", "p", "a", "r", "q", "u", "e", "t">>
FmtParquetThenOrc == <<"p", "a", "r", "q", "u", "e", "t", "_", "o", "r", "c">>
FmtAvro == <<"a", "v", "r", "o", ".", "A", "v", "r", "o", "C", "o", "n", "t", "a", "i", "n", "e", "r", "I", "n", "p", "u", "t", "F", "o", "r", "m", "a", "t">>
FmtPartial == <<"p", "a", "r", "q", "u", "e", ".", "o", "r">>

Locations ==
    {LocS3, LocS3Upper, LocHdfs, LocS3NoSlash, LocS3a, LocPrefixOnly, LocInnerS3, LocEmpty}
TableTypes ==
    {TypeIcebergUpper, TypeIcebergLower, TypeIcebergMixed, TypeHive, TypeIcebergSuffix}
InputFormats ==
    {FmtParquetClass, FmtParquetUpper, FmtOrcClass, FmtOrcUpper, FmtText,
     FmtOrcThenParquet, FmtParquetThenOrc, FmtAvro, FmtPartial}
\* table_format values handed to the classifier, the ones _parse_table never
\* produces included
Formats == {"ICEBERG", "PARQUET", "ORC", "AVRO", "UNKNOWN", "CSV", "parquet"}

-----------------------------------------------------------------------------
(* Readiness classifier: GlueCatalogAssessor._assess_migration_readiness *)

\* The classifier with the AVRO entry missing from the convertible formats
AssessMigrationReadinessNoAvro(is_iceberg, table_format, storage_location) ==
    IF is_iceberg
    THEN IF startswith(storage_location, PrefixS3)
         THEN [readiness |-> "READY", notes |-> <<>>]
         ELSE [readiness |-> "UNKNOWN", notes |-> <<"Non-S3 storage location">>]
    ELSE IF table_format \in {"PARQUET", "ORC"}
    THEN [readiness |-> "NEEDS_CONVERSION",
          notes |-> <<table_format \o " format requires conversion to Iceberg">>]
    ELSE IF table_format = "UNKNOWN"
    THEN [readiness |-> "UNKNOWN", notes |-> <<"Unknown table format">>]
    ELSE [readiness |-> "UNKNOWN", notes |-> <<"Unsupported format: " \o table_format>>]

\* The classifier with a fourth verdict for Iceberg tables outside S3
AssessMigrationReadinessBlocked(is_iceberg, table_format, storage_location) ==
    IF is_iceberg
    THEN IF startswith(storage_location, PrefixS3)
         THEN [readiness |-> "READY", notes |-> <<>>]
         ELSE [readiness |-> "BLOCKED", notes |-> <<"Non-S3 storage location">>]
    ELSE IF table_format \in {"PARQUET", "ORC", "AVRO"}
    THEN [readiness |-> "NEEDS_CONVERSION",
          notes |-> <<table_format \o " format requires conversion to Iceberg">>]
    ELSE IF table_format = "UNKNOWN"
    THEN [readiness |-> "UNKNOWN", notes |-> <<"Unknown table format">>]
    ELSE [readiness |-> "UNKNOWN", notes |-> <<"Unsupported format: " \o table_format>>]

\* The classifier judging by the location alone
AssessMigrationReadinessByLocation(is_iceberg, table_format, storage_location) ==
    IF startswith(storage_location, PrefixS3)
    THEN [readiness |-> "READY", notes |-> <<>>]
    ELSE [readiness |-> "UNKNOWN", notes |-> <<"Non-S3 storage location">>]

\* Returns the tuple (readiness, notes) as a record
AssessMigrationReadiness(is_iceberg, table_format, storage_location) ==
    IF is_iceberg
    THEN IF startswith(storage_location, PrefixS3)
         THEN [readiness |-> "READY", notes |-> <<>>]
         ELSE [readiness |-> "UNKNOWN", notes |-> <<"Non-S3 storage location">>]
    ELSE IF table_format \in {"PARQUET", "ORC", "AVRO"}
    THEN [readiness |-> "NEEDS_CONVERSION",
          notes |-> <<table_format \o " format requires conversion to Iceberg">>]
    ELSE IF table_format = "UNKNOWN"
    THEN [readiness |-> "UNKNOWN", notes |-> <<"Unknown table format">>]
    ELSE [readiness |-> "UNKNOWN", notes |-> <<"Unsupported format: " \o table_format>>]

-----------------------------------------------------------------------------
(* Normalizer: GlueCatalogAssessor._parse_table *)

\* A raw Glue table record: every key may be missing, and so may each key inside
\* Parameters, StorageDescriptor and the entries of PartitionKeys. This one has
\* a Name and neither PartitionKeys nor UpdateTime.
RawTable(name, parameters, storage) ==
    [Name |-> Some(name), Parameters |-> parameters, StorageDescriptor |-> storage,
     PartitionKeys |-> None, UpdateTime |-> None]

\* table_dict.get("Parameters", {}).get("table_type", "")
RawTableType(table_dict) ==
    IF IsNone(table_dict.Parameters) THEN <<>>
    ELSE GetOr(table_dict.Parameters[1].table_type, <<>>)
\* storage_desc.get("InputFormat", "")
RawInputFormat(table_dict) ==
    IF IsNone(table_dict.StorageDescriptor) THEN <<>>
    ELSE GetOr(table_dict.StorageDescriptor[1].InputFormat, <<>>)
\* storage_desc.get("Location", "")
RawLocation(table_dict) ==
    IF IsNone(table_dict.StorageDescriptor) THEN <<>>
    ELSE GetOr(table_dict.StorageDescriptor[1].Location, <<>>)

\* table_dict.get("PartitionKeys", [])
RawPartitionKeys(table_dict) == GetOr(table_dict.PartitionKeys, <<>>)
\* table_dict.get("UpdateTime"), dropped when it is truthy and no datetime
RawLastUpdated(table_dict) ==
    IF IsNone(table_dict.UpdateTime) \/ ~table_dict.UpdateTime[1].is_datetime
    THEN None
    ELSE table_dict.UpdateTime

\* The exception _parse_table raises, if any: table_dict["Name"] and pk["Name"]
\* are subscripts, not .get()
ParseTableRaises(table_dict) ==
    IF IsNone(table_dict.Name) THEN Some("KeyError")
    ELSE IF \E i \in 1..Len(RawPartitionKeys(table_dict)) :
               IsNone(RawPartitionKeys(table_dict)[i].Name)
    THEN Some("KeyError")
    ELSE None

\* Format detection that tests the input format for "orc" before "parquet"
DetectFormatOrcFirst(table_type, input_format) ==
    IF upper(table_type) = LitIceberg
    THEN [table_format |-> "ICEBERG", is_iceberg |-> TRUE]
    ELSE [table_format |->
              IF contains(lower(input_format), LitOrc) THEN "ORC"
              ELSE IF contains(lower(input_format), LitParquet) THEN "PARQUET"
              ELSE "UNKNOWN",
          is_iceberg |-> FALSE]

\* Format detection that sets is_iceberg from the raw marker without upper()
DetectFormatRawFlag(table_type, input_format) ==
    IF upper(table_type) = LitIceberg
    THEN [table_format |-> "ICEBERG", is_iceberg |-> table_type = LitIceberg]
    ELSE [table_format |->
              IF contains(lower(input_format), LitParquet) THEN "PARQUET"
              ELSE IF contains(lower(input_format), LitOrc) THEN "ORC"
              ELSE "UNKNOWN",
          is_iceberg |-> FALSE]

\* A detection that names a format the classifier does not know
DetectFormatCsv(table_type, input_format) ==
    IF upper(table_type) = LitIceberg
    THEN [table_format |-> "ICEBERG", is_iceberg |-> TRUE]
    ELSE [table_format |->
              IF contains(lower(input_format), LitParquet) THEN "PARQUET"
              ELSE IF contains(lower(input_format), LitOrc) THEN "ORC"
              ELSE "CSV",
          is_iceberg |-> FALSE]

\* "Determine table format": table_format and is_iceberg
DetectFormat(table_type, input_format) ==
    IF upper(table_type) = LitIceberg
    THEN [table_format |-> "ICEBERG", is_iceberg |-> TRUE]
    ELSE [table_format |->
              IF contains(lower(input_format), LitParquet) THEN "PARQUET"
              ELSE IF contains(lower(input_format), LitOrc) THEN "ORC"
              ELSE "UNKNOWN",
          is_iceberg |-> FALSE]

\* The GlueTable the normalizer builds when it does not raise; estimated_size_gb
\* is always None
ParseTable(database_name, table_dict) ==
    LET storage_location == RawLocation(table_dict)
        pks == RawPartitionKeys(table_dict)
        fmt == DetectFormat(RawTableType(table_dict), RawInputFormat(table_dict))
        verdict == AssessMigrationReadiness(fmt.is_iceberg, fmt.table_format,
                                            storage_location)
    IN [database_name |-> database_name,
        table_name |-> table_dict.Name[1],
        table_format |-> fmt.table_format,
        storage_location |-> storage_location,
        estimated_size_gb |-> None,
        partition_keys |-> [i \in 1..Len(pks) |-> pks[i].Name[1]],
        last_updated |-> RawLastUpdated(table_dict),
        is_iceberg |-> fmt.is_iceberg,
        migration_readiness |-> verdict.readiness,
        notes |-> verdict.notes]

-----------------------------------------------------------------------------
(* SpecPure: one call of the classifier or of the normalizer on drawn inputs *)

OptTableTypes == {None} \cup {Some(x) : x \in TableTypes}
OptInputFormats == {None} \cup {Some(x) : x \in InputFormats}
OptLocations == {None} \cup {Some(x) : x \in {LocS3, LocHdfs, LocS3Upper}}
RawParameters == {None} \cup {Some([table_type |-> x]) : x \in OptTableTypes}
RawStorageDescriptors ==
    {None} \cup {Some([Location |-> l, InputFormat |-> f]) :
                    l \in OptLocations, f \in OptInputFormats}
RawTables == {RawTable("t1", p, sd) : p \in RawParameters, sd \in RawStorageDescriptors}

\* Records with keys missing or malformed: the record without Name, partition
\* key entries with and without Name, an UpdateTime that is or is not a datetime
PartitionKeyLists ==
    {None, Some(<<>>), Some(<<[Name |-> Some("year")]>>), Some(<<[Name |-> None]>>),
     Some(<<[Name |-> Some("year")], [Name |-> None]>>)}
UpdateTimes == {None, Some([is_datetime |-> TRUE]), Some([is_datetime |-> FALSE])}
MalformedTables ==
    {[Name |-> n, Parameters |-> p, StorageDescriptor |-> None,
      PartitionKeys |-> pk, UpdateTime |-> u] :
        n \in {None, Some("t1")}, p \in {None, Some([table_type |-> None])},
        pk \in PartitionKeyLists, u \in UpdateTimes}

ClassifierCalls ==
    [op : {"_assess_migration_readiness"}, is_iceberg : BOOLEAN,
     table_format : Formats, storage_location : Locations]
ParserCalls ==
    [op : {"_parse_table"}, database_name : {"db1"},
     table_dict : RawTables \cup MalformedTables]

NoReturn == [kind |-> "none"]

NoCall == [op |-> "none"]
NoReport == [kind |-> "none"]

\* The assessor is not running
AssessIdle ==
    /\ pc = "idle"
    /\ databases = <<>>
    /\ db_index = 0
    /\ tables = <<>>
    /\ all_tables = <<>>
    /\ next_token = None
    /\ pages_fetched = 0
    /\ glue_calls = <<>>
    /\ report = NoReport

NoRequest == [tool |-> "none"]
NoResponse == [kind |-> "none"]

\* The store is empty and no tool has been called
StoreIdle ==
    /\ assessments = <<>>
    /\ glue_databases = <<>>
    /\ glue_tables = <<>>
    /\ tool_request = NoRequest
    /\ tool_response = NoResponse

NoCli == [pc |-> "none"]
NoSession == [state |-> "none", new |-> <<>>]
NoResult == [kind |-> "none"]

\* _save_assessment_to_db is not running
SaveIdle ==
    /\ save_pc = "idle"
    /\ save_report = NoReport
    /\ save_db = [index |-> 0, id |-> 0]
    /\ save_table = 0
    /\ session = NoSession
    /\ save_result = NoResult

InitPure ==
    /\ call \in ClassifierCalls \cup ParserCalls
    /\ ret = NoReturn
    /\ AssessIdle
    /\ StoreIdle
    /\ SaveIdle
    /\ cli = NoCli

CallAssessMigrationReadiness ==
    /\ call.op = "_assess_migration_readiness"
    /\ ret = NoReturn
    /\ ret' = [kind |-> "verdict",
               value |-> AssessMigrationReadiness(call.is_iceberg, call.table_format,
                                                  call.storage_location)]
    /\ UNCHANGED <<call, assessVars, storeVars, toolVars, saveVars, cliVars>>

CallParseTable ==
    /\ call.op = "_parse_table"
    /\ ret = NoReturn
    /\ ret' = IF ParseTableRaises(call.table_dict) # None
               THEN [kind |-> "raised", exception |-> ParseTableRaises(call.table_dict)[1]]
               ELSE [kind |-> "table",
                     value |-> ParseTable(call.database_name, call.table_dict)]
    /\ UNCHANGED <<call, assessVars, storeVars, toolVars, saveVars, cliVars>>

NextPure == CallAssessMigrationReadiness \/ CallParseTable

SpecPure == InitPure /\ [][NextPure]_vars

-----------------------------------------------------------------------------
(* Properties of the classifier and the normalizer, checked under SpecPure *)

ReadinessValues == {"READY", "NEEDS_CONVERSION", "UNKNOWN"}

\* Case-insensitive comparison, stated without upper() / lower() of whole strings
EqualsIgnoreCase(a, b) ==
    /\ Len(a) = Len(b)
    /\ \A i \in 1..Len(a) : LowerChar(a[i]) = LowerChar(b[i])
ContainsIgnoreCase(s, sub) ==
    \E i \in 1..(Len(s) - Len(sub) + 1) :
        EqualsIgnoreCase(SubSeq(s, i, i + Len(sub) - 1), sub)

\* C1: the classifier returns a verdict for every input, and the verdict is the
\* first matching row of the decision table: Iceberg on s3:// is READY with no
\* note, Iceberg elsewhere is UNKNOWN "Non-S3 storage location", PARQUET / ORC /
\* AVRO is NEEDS_CONVERSION "<FORMAT> format requires conversion to Iceberg",
\* UNKNOWN is UNKNOWN "Unknown table format", anything else is UNKNOWN
\* "Unsupported format: <FORMAT>".
C1_ClassifierDecisionTable ==
    /\ (call.op = "_assess_migration_readiness" /\ ret.kind = "none")
          => ENABLED CallAssessMigrationReadiness
    /\ (call.op = "_assess_migration_readiness" /\ ret.kind = "verdict") =>
          LET ice == call.is_iceberg
              f == call.table_format
              onS3 == startswith(call.storage_location, PrefixS3)
              v == ret.value
          IN /\ v.readiness \in ReadinessValues
             /\ (ice /\ onS3) => (v.readiness = "READY" /\ v.notes = <<>>)
             /\ (ice /\ ~onS3) =>
                   (v.readiness = "UNKNOWN" /\ v.notes = <<"Non-S3 storage location">>)
             /\ (~ice /\ f = "PARQUET") =>
                   (/\ v.readiness = "NEEDS_CONVERSION"
                    /\ v.notes = <<"PARQUET format requires conversion to Iceberg">>)
             /\ (~ice /\ f = "ORC") =>
                   (/\ v.readiness = "NEEDS_CONVERSION"
                    /\ v.notes = <<"ORC format requires conversion to Iceberg">>)
             /\ (~ice /\ f = "AVRO") =>
                   (/\ v.readiness = "NEEDS_CONVERSION"
                    /\ v.notes = <<"AVRO format requires conversion to Iceberg">>)
             /\ (~ice /\ f = "UNKNOWN") =>
                   (v.readiness = "UNKNOWN" /\ v.notes = <<"Unknown table format">>)
             /\ (~ice /\ f \notin {"PARQUET", "ORC", "AVRO", "UNKNOWN"}) =>
                   (/\ v.readiness = "UNKNOWN"
                    /\ v.notes = <<"Unsupported format: " \o f>>)

\* The classifier has returned NEEDS_CONVERSION for a non-Iceberg AVRO table
C1_Witness ==
    /\ call.op = "_assess_migration_readiness"
    /\ ret.kind = "verdict"
    /\ ~call.is_iceberg
    /\ call.table_format = "AVRO"
    /\ ret.value.readiness = "NEEDS_CONVERSION"

\* C2: every table the normalizer builds has is_iceberg exactly when its
\* table_format is ICEBERG.
C2_IcebergFlagMatchesFormat ==
    (call.op = "_parse_table" /\ ret.kind = "table") =>
        (ret.value.is_iceberg <=> (ret.value.table_format = "ICEBERG"))

\* The normalizer has built an Iceberg table from a lower-case table_type marker
C2_Witness ==
    /\ call.op = "_parse_table"
    /\ ret.kind = "table"
    /\ RawTableType(call.table_dict) = TypeIcebergLower
    /\ ret.value.is_iceberg
    /\ ret.value.table_format = "ICEBERG"

\* C4: the format is resolved by strict priority: table_type equal to ICEBERG
\* ignoring case gives ICEBERG whatever the input format; otherwise an input
\* format containing "parquet" ignoring case gives PARQUET; otherwise one
\* containing "orc" gives ORC; otherwise UNKNOWN. An input format with both
\* substrings is PARQUET.
C4_FormatPriority ==
    (call.op = "_parse_table" /\ ret.kind = "table") =>
        LET marker == RawTableType(call.table_dict)
            input_format == RawInputFormat(call.table_dict)
            isIceberg == EqualsIgnoreCase(marker, LitIceberg)
            hasParquet == ContainsIgnoreCase(input_format, LitParquet)
            hasOrc == ContainsIgnoreCase(input_format, LitOrc)
            f == ret.value.table_format
        IN /\ isIceberg => f = "ICEBERG"
           /\ (~isIceberg /\ hasParquet) => f = "PARQUET"
           /\ (~isIceberg /\ ~hasParquet /\ hasOrc) => f = "ORC"
           /\ (~isIceberg /\ ~hasParquet /\ ~hasOrc) => f = "UNKNOWN"
           /\ (~isIceberg /\ hasParquet /\ hasOrc) => f = "PARQUET"

\* The normalizer has resolved an input format holding "orc" before "parquet"
C4_Witness ==
    /\ call.op = "_parse_table"
    /\ ret.kind = "table"
    /\ RawTableType(call.table_dict) = TypeHive
    /\ RawInputFormat(call.table_dict) = FmtOrcThenParquet
    /\ ret.value.table_format = "PARQUET"

-----------------------------------------------------------------------------
(* run_assessment: paginated listings, normalisation, summary               *)

\* Bounds of the catalog the Glue service serves
MaxPages == 2
MaxDatabases == 2
MaxTables == 2

DbNames == {"db1", "db2"}

\* Raw table records the service returns: Iceberg on S3, Iceberg on HDFS,
\* Parquet, and a text table
IcebergS3Raw ==
    RawTable("t1", Some([table_type |-> Some(TypeIcebergUpper)]),
             Some([Location |-> Some(LocS3), InputFormat |-> None]))
IcebergHdfsRaw ==
    RawTable("t2", Some([table_type |-> Some(TypeIcebergLower)]),
             Some([Location |-> Some(LocHdfs), InputFormat |-> Some(FmtParquetClass)]))
ParquetRaw ==
    RawTable("t3", None,
             Some([Location |-> Some(LocS3), InputFormat |-> Some(FmtParquetClass)]))
TextRaw ==
    RawTable("t4", Some([table_type |-> Some(TypeHive)]),
             Some([Location |-> Some(LocS3), InputFormat |-> Some(FmtText)]))
AssessRawTables == {IcebergS3Raw, IcebergHdfsRaw, ParquetRaw, TextRaw}

\* Sequences over S of length at most n
SeqUpTo(S, n) == UNION {[1..k -> S] : k \in 0..n}

\* The NextToken a response may carry: none or an empty one on a last page,
\* otherwise the token of the page that follows
ResponseTokens(pageNo) ==
    {None, Some("")}
        \cup (IF pageNo < MaxPages THEN {Some("page" \o ToString(pageNo + 1))} ELSE {})

\* not next_token
Falsy(token) == token = None \/ token = Some("")

\* A loop that asks for the first page every time
RequestTokenDropped(token) == None
\* if next_token: ...(NextToken=next_token) else: the call without a token
RequestToken(token) == IF Falsy(token) THEN None ELSE token

\* sum(1 for t in all_tables if ...), by the field tested
CountIceberg(ts) == Cardinality({i \in 1..Len(ts) : ts[i].is_iceberg})
CountReadiness(ts, r) ==
    Cardinality({i \in 1..Len(ts) : ts[i].migration_readiness = r})

\* sum(t.estimated_size_gb for t in all_tables if t.estimated_size_gb is not None)
RECURSIVE SumPresentSizes(_)
SumPresentSizes(ts) ==
    IF ts = <<>> THEN 0
    ELSE (IF IsNone(Head(ts).estimated_size_gb) THEN 0 ELSE Head(ts).estimated_size_gb[1])
         + SumPresentSizes(Tail(ts))

\* AssessmentSummary(...) of run_assessment
Summarize(dbs, ts) ==
    [total_databases |-> Len(dbs),
     total_tables |-> Len(ts),
     iceberg_tables |-> CountIceberg(ts),
     migration_ready |-> CountReadiness(ts, "READY"),
     needs_conversion |-> CountReadiness(ts, "NEEDS_CONVERSION"),
     unknown |-> CountReadiness(ts, "UNKNOWN"),
     total_estimated_size_gb |-> SumPresentSizes(ts)]

InitAssess ==
    /\ call = NoCall
    /\ ret = NoReturn
    /\ pc = "list_databases"
    /\ databases = <<>>
    /\ db_index = 0
    /\ tables = <<>>
    /\ all_tables = <<>>
    /\ next_token = None
    /\ pages_fetched = 0
    /\ glue_calls = <<>>
    /\ report = NoReport
    /\ StoreIdle
    /\ SaveIdle
    /\ cli = NoCli

\* One iteration of the loop of list_databases: a get_databases call and the
\* entries of its page appended with table_count 0
GetDatabasesPage ==
    /\ pc = "list_databases"
    /\ \E names \in SeqUpTo(DbNames, MaxDatabases - Len(databases)),
          listed \in BOOLEAN,
          token \in ResponseTokens(pages_fetched + 1) :
          LET DatabaseList == IF listed THEN names ELSE <<>>
          IN /\ (~listed => names = <<>>)
             /\ databases' = databases \o
                    [i \in 1..Len(DatabaseList) |->
                        [database_name |-> DatabaseList[i], table_count |-> 0]]
             /\ next_token' = token
             /\ pages_fetched' = pages_fetched + 1
             /\ glue_calls' = Append(glue_calls,
                                     [NextTokenSent |-> RequestToken(next_token),
                                      DatabaseList |-> DatabaseList,
                                      NextToken |-> token])
             /\ IF Falsy(token)
                THEN pc' = "next_database" /\ db_index' = 1
                ELSE pc' = "list_databases" /\ db_index' = db_index
    /\ UNCHANGED <<call, ret, tables, all_tables, report, storeVars, toolVars, saveVars,
                   cliVars>>

\* for database in databases: the call of list_tables begins
StartListTables ==
    /\ pc = "next_database"
    /\ db_index <= Len(databases)
    /\ pc' = "list_tables"
    /\ tables' = <<>>
    /\ next_token' = None
    /\ pages_fetched' = 0
    /\ glue_calls' = <<>>
    /\ UNCHANGED <<call, ret, databases, db_index, all_tables, report, storeVars, toolVars, saveVars,
                   cliVars>>

\* One iteration of the loop of list_tables: a get_tables call and the
\* records of its page parsed and appended, the catalog holding tables of the
\* kinds RawKinds
GetTablesPageOf(RawKinds) ==
    /\ pc = "list_tables"
    /\ \E raws \in SeqUpTo(RawKinds, MaxTables - Len(all_tables) - Len(tables)),
          listed \in BOOLEAN,
          token \in ResponseTokens(pages_fetched + 1) :
          LET TableList == IF listed THEN raws ELSE <<>>
              database_name == databases[db_index].database_name
          IN /\ (~listed => raws = <<>>)
             /\ tables' = tables \o
                    [i \in 1..Len(TableList) |-> ParseTable(database_name, TableList[i])]
             /\ next_token' = token
             /\ pages_fetched' = pages_fetched + 1
             /\ glue_calls' = Append(glue_calls,
                                     [NextTokenSent |-> RequestToken(next_token),
                                      TableList |-> TableList,
                                      NextToken |-> token])
             /\ pc' = IF Falsy(token) THEN "extend" ELSE "list_tables"
    /\ UNCHANGED <<call, ret, databases, db_index, all_tables, report, storeVars, toolVars, saveVars,
                   cliVars>>

GetTablesPage == GetTablesPageOf(AssessRawTables)

\* A loop that counts the tables collected so far over all databases
ExtendAllTablesCumulative ==
    /\ pc = "extend"
    /\ all_tables' = all_tables \o tables
    /\ databases' = [databases EXCEPT ![db_index].table_count = Len(all_tables \o tables)]
    /\ db_index' = db_index + 1
    /\ pc' = "next_database"
    /\ glue_calls' = <<>>
    /\ UNCHANGED <<call, ret, tables, next_token, pages_fetched, report, storeVars,
                   toolVars, saveVars, cliVars>>

\* all_tables.extend(tables); database.table_count = len(tables)
ExtendAllTables ==
    /\ pc = "extend"
    /\ all_tables' = all_tables \o tables
    /\ databases' = [databases EXCEPT ![db_index].table_count = Len(tables)]
    /\ db_index' = db_index + 1
    /\ pc' = "next_database"
    /\ glue_calls' = <<>>
    /\ UNCHANGED <<call, ret, tables, next_token, pages_fetched, report, storeVars,
                   toolVars, saveVars, cliVars>>

\* The summary statistics and the AssessmentReport, after the last database
BuildReport ==
    /\ pc = "next_database"
    /\ db_index > Len(databases)
    /\ report' = [kind |-> "report",
                  summary |-> Summarize(databases, all_tables),
                  databases |-> databases,
                  tables |-> all_tables]
    /\ pc' = "done"
    /\ glue_calls' = <<>>
    /\ UNCHANGED <<call, ret, databases, db_index, tables, all_tables, next_token,
                   pages_fetched, storeVars, toolVars, saveVars, cliVars>>

NextAssess ==
    \/ GetDatabasesPage
    \/ StartListTables
    \/ GetTablesPage
    \/ ExtendAllTables
    \/ BuildReport

SpecAssess == InitAssess /\ [][NextAssess]_vars

-----------------------------------------------------------------------------
(* Properties of run_assessment, checked under SpecAssess *)

\* C3: in every report run_assessment returns, migration_ready +
\* needs_conversion + unknown = total_tables, total_tables is the number of
\* tables of the report and total_databases the number of its databases.
C3_ReadinessCountsSumToTotal ==
    report.kind = "report" =>
        /\ report.summary.migration_ready + report.summary.needs_conversion
             + report.summary.unknown = report.summary.total_tables
        /\ report.summary.total_tables = Len(report.tables)
        /\ report.summary.total_databases = Len(report.databases)

\* A report over two databases and two tables, one counted NEEDS_CONVERSION and
\* one counted UNKNOWN, the latter an Iceberg table outside S3
C3_Witness ==
    /\ report.kind = "report"
    /\ report.summary.total_databases = 2
    /\ report.summary.total_tables = 2
    /\ report.summary.migration_ready = 0
    /\ report.summary.needs_conversion = 1
    /\ report.summary.unknown = 1
    /\ \E i \in 1..Len(report.tables) :
          report.tables[i].is_iceberg /\ report.tables[i].migration_readiness = "UNKNOWN"

-----------------------------------------------------------------------------
(* The store behind AssessmentRepository and the query tools                *)

\* Bound on the rows of glue_databases and glue_tables together
MaxRows == 4

\* Primary keys the server generates for assessments, in the order handed out,
\* and a well-formed key that names no row
AssessmentIds == <<"a1", "a2">>
MissingId == "a0"
TableNames == {"t1", "t2"}

\* Column values of the glue_tables rows saved. estimated_size_gb is
\* Numeric(12, 2): a present value is kept in hundredths of a GB.
TableVariants ==
    {[table_format |-> "ICEBERG", migration_readiness |-> "READY",
      estimated_size_gb |-> Some(10000), is_iceberg |-> TRUE],
     [table_format |-> "ICEBERG", migration_readiness |-> "READY",
      estimated_size_gb |-> None, is_iceberg |-> TRUE],
     [table_format |-> "ICEBERG", migration_readiness |-> "UNKNOWN",
      estimated_size_gb |-> Some(10000), is_iceberg |-> TRUE],
     [table_format |-> "UNKNOWN", migration_readiness |-> "UNKNOWN",
      estimated_size_gb |-> Some(0), is_iceberg |-> FALSE]}

Range(seq) == {seq[i] : i \in 1..Len(seq)}
\* list(a_set), and the order in which a for loop walks a set
RECURSIVE SetToSeq(_)
SetToSeq(S) ==
    IF S = {} THEN <<>>
    ELSE LET x == CHOOSE y \in S : TRUE IN <<x>> \o SetToSeq(S \ {x})
\* The lists of a list of lists, appended in order
RECURSIVE Concat(_)
Concat(lists) ==
    IF lists = <<>> THEN <<>> ELSE Head(lists) \o Concat(Tail(lists))

\* The key the server generates for a new assessment: one no stored row has
FreshAssessmentId ==
    AssessmentIds[CHOOSE i \in 1..Len(AssessmentIds) :
                     /\ \A k \in 1..Len(assessments) : assessments[k].id # AssessmentIds[i]
                     /\ \A j \in 1..(i - 1) :
                           \E k \in 1..Len(assessments) :
                              assessments[k].id = AssessmentIds[j]]
\* The key of a new row of glue_databases or glue_tables: the least one no
\* stored row has
FreshRowId(rows) ==
    CHOOSE i \in 1..(Len(rows) + 1) :
        /\ \A k \in 1..Len(rows) : rows[k].id # i
        /\ \A j \in 1..(i - 1) : \E k \in 1..Len(rows) : rows[k].id = j

\* The repository writes below run while no tool call is being served.
\* AssessmentRepository.save_assessment: add, commit, refresh
SaveAssessment ==
    /\ tool_request = NoRequest
    /\ Len(assessments) < Len(AssessmentIds)
    /\ assessments' = Append(assessments,
                             [id |-> FreshAssessmentId, status |-> "completed"])
    /\ UNCHANGED <<pureVars, assessVars, glue_databases, glue_tables, toolVars, saveVars,
                   cliVars>>

\* AssessmentRepository.save_glue_database: add, commit, refresh
SaveGlueDatabase ==
    /\ tool_request = NoRequest
    /\ Len(glue_databases) + Len(glue_tables) < MaxRows
    /\ \E a \in 1..Len(assessments), name \in DbNames :
          glue_databases' = Append(glue_databases,
                                   [id |-> FreshRowId(glue_databases),
                                    assessment_id |-> assessments[a].id,
                                    database_name |-> name])
    /\ UNCHANGED <<pureVars, assessVars, assessments, glue_tables, toolVars, saveVars,
                   cliVars>>

\* AssessmentRepository.save_glue_table: add, commit, refresh. The table row
\* carries the key of its database and of that database's assessment.
SaveGlueTable ==
    /\ tool_request = NoRequest
    /\ Len(glue_databases) + Len(glue_tables) < MaxRows
    /\ \E d \in 1..Len(glue_databases), name \in TableNames, v \in TableVariants :
          glue_tables' = Append(glue_tables,
                                [id |-> FreshRowId(glue_tables),
                                 database_id |-> glue_databases[d].id,
                                 assessment_id |-> glue_databases[d].assessment_id,
                                 table_name |-> name,
                                 table_format |-> v.table_format,
                                 migration_readiness |-> v.migration_readiness,
                                 estimated_size_gb |-> v.estimated_size_gb,
                                 is_iceberg |-> v.is_iceberg])
    /\ UNCHANGED <<pureVars, assessVars, assessments, glue_databases, toolVars, saveVars,
                   cliVars>>

\* AssessmentRepository.get_assessment: the row or None
GetAssessment(assessment_id) ==
    LET found == SelectSeq(assessments, LAMBDA a : a.id = assessment_id)
    IN IF found = <<>> THEN None ELSE Some(found[1])

\* AssessmentRepository.get_glue_databases(assessment_id, include_tables=True):
\* the database rows, each with its tables loaded
GetGlueDatabases(assessment_id) ==
    LET rows == SelectSeq(glue_databases, LAMBDA d : d.assessment_id = assessment_id)
    IN [i \in 1..Len(rows) |->
           [database_name |-> rows[i].database_name,
            tables |-> SelectSeq(glue_tables, LAMBDA t : t.database_id = rows[i].id)]]

\* A sum that is NULL as soon as one row has no value
SqlSumStrict(rows) ==
    IF rows = <<>> \/ \E i \in 1..Len(rows) : IsNone(rows[i].estimated_size_gb)
    THEN None
    ELSE Some(SumPresentSizes(rows))
\* func.sum over a column: NULL when no row has a value
SqlSum(rows) ==
    IF \A i \in 1..Len(rows) : IsNone(rows[i].estimated_size_gb)
    THEN None
    ELSE Some(SumPresentSizes(rows))

\* float(total_size_gb) of a Numeric(12, 2) total or of the int 0. The float is
\* the double nearest to the decimal; doubles of distinct two-digit decimals of
\* this magnitude are distinct and print back as the decimal, so the float is
\* named by its hundredths.
ToFloat(hundredths) == hundredths

\* A summary whose table queries lack the filter on assessment_id
GetDatabaseSummaryUnfiltered(assessment_id) ==
    LET dbs == SelectSeq(glue_databases, LAMBDA d : d.assessment_id = assessment_id)
        ts == glue_tables
        total == SqlSum(ts)
    IN [database_count |-> Len(dbs),
        table_count |-> Len(ts),
        iceberg_table_count |-> CountIceberg(ts),
        total_estimated_size_gb |-> ToFloat(IF IsNone(total) \/ total = Some(0)
                                            THEN 0 ELSE total[1]),
        readiness_breakdown |->
            [r \in {ts[i].migration_readiness : i \in 1..Len(ts)} |->
                CountReadiness(ts, r)],
        format_breakdown |->
            [f \in {ts[i].table_format : i \in 1..Len(ts)} |->
                Cardinality({i \in 1..Len(ts) : ts[i].table_format = f})]]
\* AssessmentRepository.get_database_summary
GetDatabaseSummary(assessment_id) ==
    LET dbs == SelectSeq(glue_databases, LAMBDA d : d.assessment_id = assessment_id)
        ts == SelectSeq(glue_tables, LAMBDA t : t.assessment_id = assessment_id)
        total == SqlSum(ts)
    IN [database_count |-> Len(dbs),
        table_count |-> Len(ts),
        iceberg_table_count |-> CountIceberg(ts),
        total_estimated_size_gb |-> ToFloat(IF IsNone(total) \/ total = Some(0)
                                            THEN 0 ELSE total[1]),
        readiness_breakdown |->
            [r \in {ts[i].migration_readiness : i \in 1..Len(ts)} |->
                CountReadiness(ts, r)],
        format_breakdown |->
            [f \in {ts[i].table_format : i \in 1..Len(ts)} |->
                Cardinality({i \in 1..Len(ts) : ts[i].table_format = f})]]

-----------------------------------------------------------------------------
(* Query tools: mcp_server/tools.py                                         *)

\* Assessment ids a caller passes: the stored ones and one that names no row
ArgIds == Range(AssessmentIds) \cup {MissingId}

\* f"{db_name}.{table_name}"
Qualified(db_name, table_name) == db_name \o "." \o table_name

\* The not-found test that needs both lookups to fail
EitherMissingBoth(assessment1, assessment2) == IsNone(assessment1) /\ IsNone(assessment2)
\* not assessment1 or not assessment2
EitherMissing(assessment1, assessment2) == IsNone(assessment1) \/ IsNone(assessment2)

\* An added set that keeps the names found on both sides
AddedNamesAll(names1, names2) == names2
\* The differences taken the other way round
AddedNamesSwapped(names1, names2) == names1 \ names2
RemovedNamesAll(names1, names2) == names1
RemovedNamesSwapped(names1, names2) == names2 \ names1
\* db_names2 - db_names1 and table_names2 - table_names1
AddedNames(names1, names2) == names2 \ names1
\* db_names1 - db_names2 and table_names1 - table_names2
RemovedNames(names1, names2) == names1 \ names2

\* A modification test that also looks at the size
IsModifiedWithSize(t1, t2) ==
    \/ t1.table_format # t2.table_format
    \/ t1.migration_readiness # t2.migration_readiness
    \/ t1.estimated_size_gb # t2.estimated_size_gb
\* The condition under which a table of both assessments is reported modified
IsModified(t1, t2) ==
    \/ t1.table_format # t2.table_format
    \/ t1.migration_readiness # t2.migration_readiness

\* The record appended to tables_modified
ModifiedRecord(db_name, table_name, t1, t2) ==
    [name |-> Qualified(db_name, table_name),
     format_changed |-> t1.table_format # t2.table_format,
     old_format |-> t1.table_format,
     new_format |-> t2.table_format,
     readiness_changed |-> t1.migration_readiness # t2.migration_readiness,
     old_readiness |-> t1.migration_readiness,
     new_readiness |-> t2.migration_readiness]

DatabaseNames(dbs) == {dbs[i].database_name : i \in 1..Len(dbs)}
TableNamesOf(db) == {db.tables[i].table_name : i \in 1..Len(db.tables)}

\* The table-level changes of one common database: the body of
\* "for db_name in common_databases"
TableChanges(db_name, databases1, databases2) ==
    LET \* next(db for db in databases1 if db.database_name == db_name)
        db1 == Head(SelectSeq(databases1, LAMBDA db : db.database_name = db_name))
        db2 == Head(SelectSeq(databases2, LAMBDA db : db.database_name = db_name))
        table_names1 == TableNamesOf(db1)
        table_names2 == TableNamesOf(db2)
        added == SetToSeq(AddedNames(table_names1, table_names2))
        removed == SetToSeq(RemovedNames(table_names1, table_names2))
        both == SetToSeq(table_names1 \cap table_names2)
        \* next(t for t in db1.tables if t.table_name == table_name)
        T1(n) == Head(SelectSeq(db1.tables, LAMBDA t : t.table_name = n))
        T2(n) == Head(SelectSeq(db2.tables, LAMBDA t : t.table_name = n))
        changed == SelectSeq(both, LAMBDA n : IsModified(T1(n), T2(n)))
    IN [tables_added |-> [i \in 1..Len(added) |-> Qualified(db_name, added[i])],
        tables_removed |-> [i \in 1..Len(removed) |-> Qualified(db_name, removed[i])],
        tables_modified |->
            [i \in 1..Len(changed) |->
                ModifiedRecord(db_name, changed[i], T1(changed[i]), T2(changed[i]))]]

\* The subtraction with its operands exchanged
FloatSubReversed(x, y) == y - x
\* summary2["total_estimated_size_gb"] - summary1["total_estimated_size_gb"]:
\* the double nearest to the difference of the two doubles. It is named by the
\* difference of the hundredths that name the operands; rounding to nearest is
\* symmetric in sign, so exchanging the operands negates the result exactly.
FloatSub(x, y) == x - y

\* compare_assessments_impl, for two well-formed ids
CompareAssessmentsImpl(arguments) ==
    LET assessment_id_1 == arguments.assessment_id_1
        assessment_id_2 == arguments.assessment_id_2
        assessment1 == GetAssessment(assessment_id_1)
        assessment2 == GetAssessment(assessment_id_2)
    IN IF EitherMissing(assessment1, assessment2)
       THEN [success |-> FALSE, error |-> "One or both assessments not found"]
       ELSE
       LET summary1 == GetDatabaseSummary(assessment_id_1)
           summary2 == GetDatabaseSummary(assessment_id_2)
           databases1 == GetGlueDatabases(assessment_id_1)
           databases2 == GetGlueDatabases(assessment_id_2)
           db_names1 == DatabaseNames(databases1)
           db_names2 == DatabaseNames(databases2)
           added_databases == AddedNames(db_names1, db_names2)
           removed_databases == RemovedNames(db_names1, db_names2)
           common_databases == SetToSeq(db_names1 \cap db_names2)
           perDb == [i \in 1..Len(common_databases) |->
                        TableChanges(common_databases[i], databases1, databases2)]
       IN [success |-> TRUE,
           assessment_1 |-> [id |-> assessment_id_1, summary |-> summary1],
           assessment_2 |-> [id |-> assessment_id_2, summary |-> summary2],
           changes |->
               [databases_added |-> SetToSeq(added_databases),
                databases_removed |-> SetToSeq(removed_databases),
                tables_added |-> Concat([i \in 1..Len(perDb) |-> perDb[i].tables_added]),
                tables_removed |->
                    Concat([i \in 1..Len(perDb) |-> perDb[i].tables_removed]),
                tables_modified |->
                    Concat([i \in 1..Len(perDb) |-> perDb[i].tables_modified])],
           summary_changes |->
               [database_count |-> summary2.database_count - summary1.database_count,
                table_count |-> summary2.table_count - summary1.table_count,
                total_size_gb |-> FloatSub(summary2.total_estimated_size_gb,
                                           summary1.total_estimated_size_gb)]]

\* get_database_summary_impl, for a well-formed id
GetDatabaseSummaryImpl(arguments) ==
    LET assessment_id == arguments.assessment_id
        assessment == GetAssessment(assessment_id)
    IN IF IsNone(assessment)
       THEN [success |-> FALSE, error |-> "Assessment " \o assessment_id \o " not found"]
       ELSE [success |-> TRUE,
             assessment_id |-> assessment_id,
             summary |-> GetDatabaseSummary(assessment_id)]

\* call_tool("compare_assessments", arguments)
CallCompareAssessments ==
    /\ tool_request = NoRequest
    /\ \E id1 \in ArgIds, id2 \in ArgIds :
          LET arguments == [assessment_id_1 |-> id1, assessment_id_2 |-> id2]
          IN /\ tool_request' = [tool |-> "compare_assessments", arguments |-> arguments]
             /\ tool_response' = CompareAssessmentsImpl(arguments)
    /\ UNCHANGED <<pureVars, assessVars, storeVars, saveVars, cliVars>>

\* call_tool("get_database_summary", arguments)
CallGetDatabaseSummary ==
    /\ tool_request = NoRequest
    /\ \E id \in ArgIds :
          LET arguments == [assessment_id |-> id]
          IN /\ tool_request' = [tool |-> "get_database_summary", arguments |-> arguments]
             /\ tool_response' = GetDatabaseSummaryImpl(arguments)
    /\ UNCHANGED <<pureVars, assessVars, storeVars, saveVars, cliVars>>

\* The handler has returned its result to the client
ToolReturn ==
    /\ tool_request # NoRequest
    /\ tool_request' = NoRequest
    /\ tool_response' = NoResponse
    /\ UNCHANGED <<pureVars, assessVars, storeVars, saveVars, cliVars>>

InitStore ==
    /\ call = NoCall
    /\ ret = NoReturn
    /\ AssessIdle
    /\ StoreIdle
    /\ SaveIdle
    /\ cli = NoCli

NextStore ==
    \/ SaveAssessment
    \/ SaveGlueDatabase
    \/ SaveGlueTable
    \/ CallCompareAssessments
    \/ CallGetDatabaseSummary
    \/ ToolReturn

SpecStore == InitStore /\ [][NextStore]_vars

-----------------------------------------------------------------------------
(* Properties of the query tools, checked under SpecStore. They are stated  *)
(* over the stored rows themselves. Where an assessment holds several       *)
(* databases of one name, or a database several tables of one name, "the"   *)
(* database or table of that name is the one stored first, which is the one *)
(* the queries return first.                                                *)

Stored(id) == \E i \in 1..Len(assessments) : assessments[i].id = id
DbRows(id) == {d \in Range(glue_databases) : d.assessment_id = id}
DbNamesIn(id) == {d.database_name : d \in DbRows(id)}
DbNamed(id, name) ==
    CHOOSE d \in DbRows(id) :
        /\ d.database_name = name
        /\ \A e \in DbRows(id) : e.database_name = name => d.id <= e.id
TableRows(d) == {t \in Range(glue_tables) : t.database_id = d.id}
TableNamesIn(d) == {t.table_name : t \in TableRows(d)}
TableNamed(d, name) ==
    CHOOSE t \in TableRows(d) :
        /\ t.table_name = name
        /\ \A u \in TableRows(d) : u.table_name = name => t.id <= u.id

CompareSucceeded ==
    /\ tool_request.tool = "compare_assessments"
    /\ tool_response.success
IdA == tool_request.arguments.assessment_id_1
IdB == tool_request.arguments.assessment_id_2
CommonDbNames == DbNamesIn(IdA) \cap DbNamesIn(IdB)
Changes == tool_response.changes

\* C5: a table name found in the same-named database of both assessments is in
\* tables_modified exactly when its table_format or its migration_readiness
\* differs between A and B, whatever else differs; each record carries the
\* qualified name, the old values from A, the new values from B, and
\* format_changed / readiness_changed true exactly when the value differs.
C5_ModifiedIffFormatOrReadiness ==
    CompareSucceeded =>
        /\ \A n \in CommonDbNames :
              \A t \in TableNamesIn(DbNamed(IdA, n)) \cap TableNamesIn(DbNamed(IdB, n)) :
                 LET old == TableNamed(DbNamed(IdA, n), t)
                     new == TableNamed(DbNamed(IdB, n), t)
                     differs == \/ old.table_format # new.table_format
                                \/ old.migration_readiness # new.migration_readiness
                     recs == {i \in 1..Len(Changes.tables_modified) :
                                 Changes.tables_modified[i].name = Qualified(n, t)}
                 IN /\ differs <=> recs # {}
                    /\ \A i \in recs :
                          LET r == Changes.tables_modified[i]
                          IN /\ DOMAIN r = {"name", "format_changed", "old_format",
                                            "new_format", "readiness_changed",
                                            "old_readiness", "new_readiness"}
                             /\ r.old_format = old.table_format
                             /\ r.new_format = new.table_format
                             /\ r.old_readiness = old.migration_readiness
                             /\ r.new_readiness = new.migration_readiness
                             /\ r.format_changed <=> old.table_format # new.table_format
                             /\ r.readiness_changed <=>
                                   old.migration_readiness # new.migration_readiness
        /\ \A i \in 1..Len(Changes.tables_modified) :
              \E n \in CommonDbNames :
                 \E t \in TableNamesIn(DbNamed(IdA, n)) \cap TableNamesIn(DbNamed(IdB, n)) :
                    Changes.tables_modified[i].name = Qualified(n, t)

\* A comparison of two assessments that hold db1.t1 with the same format and
\* readiness and different sizes, and that reports no modification
C5_Witness ==
    /\ CompareSucceeded
    /\ IdA # IdB
    /\ "db1" \in CommonDbNames
    /\ "t1" \in TableNamesIn(DbNamed(IdA, "db1")) \cap TableNamesIn(DbNamed(IdB, "db1"))
    /\ TableNamed(DbNamed(IdA, "db1"), "t1").estimated_size_gb
          # TableNamed(DbNamed(IdB, "db1"), "t1").estimated_size_gb
    /\ TableNamed(DbNamed(IdA, "db1"), "t1").table_format
          = TableNamed(DbNamed(IdB, "db1"), "t1").table_format
    /\ Changes.tables_modified = <<>>

\* C6: databases_added is the set of database names of B that A lacks, and
\* databases_removed the set of database names of A that B lacks.
C6_DatabasesAddedRemoved ==
    CompareSucceeded =>
        /\ Range(Changes.databases_added) = DbNamesIn(IdB) \ DbNamesIn(IdA)
        /\ Range(Changes.databases_removed) = DbNamesIn(IdA) \ DbNamesIn(IdB)

\* A comparison that reports db2 added and db1 removed
C6_Witness ==
    /\ CompareSucceeded
    /\ Changes.databases_added = <<"db2">>
    /\ Changes.databases_removed = <<"db1">>

\* C7: table changes are reported for common databases only: tables_added holds
\* "{database}.{table}" exactly for the table names of B's database that A's
\* lacks, tables_removed exactly for those of A's that B's lacks, and no table
\* of an added or removed database is in tables_added, tables_removed or
\* tables_modified.
C7_TableChangesOnlyInCommonDatabases ==
    CompareSucceeded =>
        LET listed == Range(Changes.tables_added) \cup Range(Changes.tables_removed)
                        \cup {Changes.tables_modified[i].name :
                                 i \in 1..Len(Changes.tables_modified)}
            uncommon == (DbNamesIn(IdA) \cup DbNamesIn(IdB)) \ CommonDbNames
        IN /\ Range(Changes.tables_added) =
                 UNION {{Qualified(n, t) :
                            t \in TableNamesIn(DbNamed(IdB, n))
                                    \ TableNamesIn(DbNamed(IdA, n))} :
                        n \in CommonDbNames}
           /\ Range(Changes.tables_removed) =
                 UNION {{Qualified(n, t) :
                            t \in TableNamesIn(DbNamed(IdA, n))
                                    \ TableNamesIn(DbNamed(IdB, n))} :
                        n \in CommonDbNames}
           /\ \A n \in uncommon : \A t \in TableNames : Qualified(n, t) \notin listed

\* A comparison in which the assessments share a database and B gained a
\* database that has a table: that table is not in tables_added
C7_Witness ==
    /\ CompareSucceeded
    /\ CommonDbNames # {}
    /\ Changes.databases_added # <<>>
    /\ \E d \in DbRows(IdB) :
          d.database_name \notin CommonDbNames /\ TableRows(d) # {}
    /\ Changes.tables_added = <<>>

\* C8: when an assessment id names no stored assessment, compare_assessments
\* (either id) and get_database_summary return success = false with a "not
\* found" error and nothing else: no change-set, no summary. A call whose ids
\* are all stored returns success = true.
C8_NotFoundIsExplicitFailure ==
    /\ tool_request.tool = "compare_assessments" =>
          IF Stored(IdA) /\ Stored(IdB)
          THEN tool_response.success
          ELSE /\ ~tool_response.success
               /\ DOMAIN tool_response = {"success", "error"}
               /\ tool_response.error = "One or both assessments not found"
    /\ tool_request.tool = "get_database_summary" =>
          IF Stored(tool_request.arguments.assessment_id)
          THEN tool_response.success
          ELSE /\ ~tool_response.success
               /\ DOMAIN tool_response = {"success", "error"}
               /\ tool_response.error =
                     "Assessment " \o tool_request.arguments.assessment_id \o " not found"

\* compare_assessments has failed for a stored first id and an unknown second
\* id, the first assessment holding a database
C8_Witness ==
    /\ tool_request.tool = "compare_assessments"
    /\ Stored(IdA)
    /\ ~Stored(IdB)
    /\ DbRows(IdA) # {}
    /\ ~tool_response.success

-----------------------------------------------------------------------------
(* _save_assessment_to_db: cli.py                                           *)

\* Bounds of the report handed to _save_assessment_to_db
MaxReportDatabases == 2
MaxReportTables == 1

\* The table_model objects of a report: no size, a size of 0, a size of 50 GB
ReportTableModels ==
    {[name |-> "t1", format |-> "PARQUET", readiness |-> "NEEDS_CONVERSION",
      is_iceberg |-> FALSE, estimated_size_gb |-> sz] :
        sz \in {None, Some(0), Some(5000)}}
ReportDatabaseModels ==
    {[name |-> "db1", tables |-> ts] : ts \in SeqUpTo(ReportTableModels, MaxReportTables)}

\* The report argument: the AssessmentReport run_assessment returns, which has
\* no attribute timestamp, or an object that has the attributes the function
\* reads (timestamp, account_id, databases[].name, databases[].tables, ...)
ReportArgs ==
    {[shape |-> "AssessmentReport"]}
      \cup {[shape |-> "report", databases |-> dbs] :
               dbs \in SeqUpTo(ReportDatabaseModels, MaxReportDatabases)}

\* Decimal(str(x)) if x else None
SavedSize(estimated_size_gb) ==
    IF IsNone(estimated_size_gb) \/ estimated_size_gb = Some(0)
    THEN None
    ELSE estimated_size_gb

ClickException == [kind |-> "raised", exception |-> "ClickException"]

InitSave ==
    /\ call = NoCall
    /\ ret = NoReturn
    /\ AssessIdle
    /\ StoreIdle
    /\ save_pc = "create_session"
    /\ save_report \in ReportArgs
    /\ save_db = [index |-> 0, id |-> 0]
    /\ save_table = 0
    /\ session = NoSession
    /\ save_result = NoResult
    /\ cli = NoCli

\* A session as SessionLocal() returns it: open, nothing pending, no
\* rollback() called on it
OpenSession == [state |-> "open", new |-> <<>>, rolled_back |-> FALSE]

\* engine = get_engine(); session = SessionLocal()
CreateSession ==
    /\ save_pc = "create_session"
    /\ session' = OpenSession
    /\ save_pc' = "build_assessment"
    /\ UNCHANGED <<pureVars, assessVars, storeVars, toolVars, save_report, save_db,
                   save_table, save_result, cliVars>>

\* Assessment(timestamp=report.timestamp, ...): AttributeError on an
\* AssessmentReport
BuildAssessment ==
    /\ save_pc = "build_assessment"
    /\ save_pc' = IF save_report.shape = "AssessmentReport"
                  THEN "except" ELSE "save_assessment"
    /\ UNCHANGED <<pureVars, assessVars, storeVars, toolVars, save_report, save_db,
                   save_table, session, save_result, cliVars>>

\* repository.save_assessment(assessment): the row is committed at once, or the
\* commit raises and the row stays uncommitted in the session
DbSaveAssessment ==
    /\ save_pc = "save_assessment"
    /\ LET row == [id |-> AssessmentIds[Len(assessments) + 1], status |-> "completed"]
       IN \E committed \in BOOLEAN :
             IF committed
             THEN /\ assessments' = Append(assessments, row)
                  /\ save_pc' = "next_database"
                  /\ save_db' = [index |-> 1, id |-> 0]
                  /\ session' = session
             ELSE /\ session' = [session EXCEPT !.new = Append(@, row)]
                  /\ save_pc' = "except"
                  /\ UNCHANGED <<assessments, save_db, cliVars>>
    /\ UNCHANGED <<pureVars, assessVars, glue_databases, glue_tables, toolVars,
                   save_report, save_table, save_result, cliVars>>

\* for db_model in report.databases: repository.save_glue_database(glue_db)
DbSaveGlueDatabase ==
    /\ save_pc = "next_database"
    /\ save_db.index <= Len(save_report.databases)
    /\ LET db_model == save_report.databases[save_db.index]
           row == [id |-> Len(glue_databases) + 1,
                   assessment_id |-> assessments[Len(assessments)].id,
                   database_name |-> db_model.name]
       IN \E committed \in BOOLEAN :
             IF committed
             THEN /\ glue_databases' = Append(glue_databases, row)
                  /\ save_db' = [save_db EXCEPT !.id = row.id]
                  /\ save_table' = 1
                  /\ save_pc' = "next_table"
                  /\ session' = session
             ELSE /\ session' = [session EXCEPT !.new = Append(@, row)]
                  /\ save_pc' = "except"
                  /\ UNCHANGED <<glue_databases, save_db, save_table, cliVars>>
    /\ UNCHANGED <<pureVars, assessVars, assessments, glue_tables, toolVars, save_report,
                   save_result, cliVars>>

\* for table_model in db_model.tables: repository.save_glue_table(glue_table)
DbSaveGlueTable ==
    /\ save_pc = "next_table"
    /\ save_table <= Len(save_report.databases[save_db.index].tables)
    /\ LET table_model == save_report.databases[save_db.index].tables[save_table]
           row == [id |-> Len(glue_tables) + 1,
                   database_id |-> save_db.id,
                   assessment_id |-> assessments[Len(assessments)].id,
                   table_name |-> table_model.name,
                   table_format |-> table_model.format,
                   migration_readiness |-> table_model.readiness,
                   estimated_size_gb |-> SavedSize(table_model.estimated_size_gb),
                   is_iceberg |-> table_model.is_iceberg]
       IN \E committed \in BOOLEAN :
             IF committed
             THEN /\ glue_tables' = Append(glue_tables, row)
                  /\ save_table' = save_table + 1
                  /\ save_pc' = "next_table"
                  /\ session' = session
             ELSE /\ session' = [session EXCEPT !.new = Append(@, row)]
                  /\ save_pc' = "except"
                  /\ UNCHANGED <<glue_tables, save_table, cliVars>>
    /\ UNCHANGED <<pureVars, assessVars, assessments, glue_databases, toolVars,
                   save_report, save_db, save_result, cliVars>>

\* The tables of db_model are saved: on to the next db_model
NextDbModel ==
    /\ save_pc = "next_table"
    /\ save_table > Len(save_report.databases[save_db.index].tables)
    /\ save_db' = [index |-> save_db.index + 1, id |-> 0]
    /\ save_pc' = "next_database"
    /\ UNCHANGED <<pureVars, assessVars, storeVars, toolVars, save_report, save_table,
                   session, save_result, cliVars>>

\* session.commit(); return assessment.id
FinalCommit ==
    /\ save_pc = "next_database"
    /\ save_db.index > Len(save_report.databases)
    /\ \E committed \in BOOLEAN :
          IF committed
          THEN /\ save_result' = [kind |-> "returned",
                                  id |-> assessments[Len(assessments)].id]
               /\ save_pc' = "finally"
          ELSE /\ save_pc' = "except"
               /\ save_result' = save_result
    /\ UNCHANGED <<pureVars, assessVars, storeVars, toolVars, save_report, save_db,
                   save_table, session, cliVars>>

\* except Exception: session.rollback(); raise click.ClickException(...)
Rollback ==
    /\ save_pc = "except"
    /\ session' = [session EXCEPT !.new = <<>>, !.rolled_back = TRUE]
    /\ save_result' = ClickException
    /\ save_pc' = "finally"
    /\ UNCHANGED <<pureVars, assessVars, storeVars, toolVars, save_report, save_db,
                   save_table, cliVars>>

\* finally: session.close()
CloseSession ==
    /\ save_pc = "finally"
    /\ session' = [session EXCEPT !.state = "closed"]
    /\ save_pc' = "done"
    /\ UNCHANGED <<pureVars, assessVars, storeVars, toolVars, save_report, save_db,
                   save_table, save_result, cliVars>>

NextSave ==
    \/ CreateSession
    \/ BuildAssessment
    \/ DbSaveAssessment
    \/ DbSaveGlueDatabase
    \/ DbSaveGlueTable
    \/ NextDbModel
    \/ FinalCommit
    \/ Rollback
    \/ CloseSession

SpecSave == InitSave /\ [][NextSave]_vars

-----------------------------------------------------------------------------
(* The size totals of both summaries. An assessment is either being run     *)
(* against the catalog or, once stored, summarised from its rows by         *)
(* get_database_summary.                                                    *)

InitSizes == InitAssess \/ InitStore

NextSizes ==
    \/ NextAssess
    \/ AssessIdle /\ SaveAssessment
    \/ AssessIdle /\ SaveGlueDatabase
    \/ AssessIdle /\ SaveGlueTable
    \/ AssessIdle /\ CallGetDatabaseSummary
    \/ AssessIdle /\ ToolReturn

SpecSizes == InitSizes /\ [][NextSizes]_vars

\* The sizes that are present among rows, added up index by index
RECURSIVE TotalOver(_, _)
TotalOver(rows, indices) ==
    IF indices = {} THEN 0
    ELSE LET i == CHOOSE j \in indices : TRUE
         IN rows[i].estimated_size_gb[1] + TotalOver(rows, indices \ {i})
PresentTotal(rows) ==
    TotalOver(rows, {i \in 1..Len(rows) : rows[i].estimated_size_gb # None})

SummaryReturned ==
    /\ tool_request.tool = "get_database_summary"
    /\ tool_response.success

SummarisedRows ==
    SelectSeq(glue_tables,
              LAMBDA t : t.assessment_id = tool_request.arguments.assessment_id)

\* C10: total_estimated_size_gb, in the summary of run_assessment and in the
\* summary of get_database_summary, is the sum of the sizes that are present;
\* a table without a size adds 0 and is still counted among the tables.
C10_TotalSizeIsSumOfPresentSizes ==
    /\ report.kind = "report" =>
          /\ report.summary.total_estimated_size_gb = PresentTotal(report.tables)
          /\ report.summary.total_tables = Len(report.tables)
    /\ SummaryReturned =>
          /\ tool_response.summary.total_estimated_size_gb
                = PresentTotal(SummarisedRows)
          /\ tool_response.summary.table_count = Len(SummarisedRows)

\* A summary over a table of 100 GB and a table without a size
C10_Witness ==
    /\ SummaryReturned
    /\ \E i, j \in 1..Len(SummarisedRows) :
          /\ SummarisedRows[i].estimated_size_gb = None
          /\ SummarisedRows[j].estimated_size_gb = Some(10000)
    /\ tool_response.summary.total_estimated_size_gb > 0
    /\ tool_response.summary.table_count >= 2

-----------------------------------------------------------------------------
(* The counts of get_database_summary, checked under SpecSizes              *)

\* The stored table rows of an assessment
TablesOf(id) == {t \in Range(glue_tables) : t.assessment_id = id}

\* The values of a breakdown added up
RECURSIVE SumOfCounts(_, _)
SumOfCounts(breakdown, keys) ==
    IF keys = {} THEN 0
    ELSE LET k == CHOOSE x \in keys : TRUE
         IN breakdown[k] + SumOfCounts(breakdown, keys \ {k})

\* C11: for a stored assessment, get_database_summary counts its databases,
\* its tables and its Iceberg tables, and each breakdown has exactly the
\* readiness / format values observed among its tables as keys, each with the
\* number of its tables of that value, so that each breakdown sums to
\* table_count; rows of other assessments are not counted.
C11_SummaryCountsOwnRows ==
    SummaryReturned =>
        LET id == tool_request.arguments.assessment_id
            summary == tool_response.summary
            mine == TablesOf(id)
            rb == summary.readiness_breakdown
            fb == summary.format_breakdown
        IN /\ summary.database_count = Cardinality(DbRows(id))
           /\ summary.table_count = Cardinality(mine)
           /\ summary.iceberg_table_count = Cardinality({t \in mine : t.is_iceberg})
           /\ DOMAIN rb = {t.migration_readiness : t \in mine}
           /\ \A r \in DOMAIN rb :
                 rb[r] = Cardinality({t \in mine : t.migration_readiness = r})
           /\ DOMAIN fb = {t.table_format : t \in mine}
           /\ \A f \in DOMAIN fb :
                 fb[f] = Cardinality({t \in mine : t.table_format = f})
           /\ SumOfCounts(rb, DOMAIN rb) = summary.table_count
           /\ SumOfCounts(fb, DOMAIN fb) = summary.table_count

\* A summary of an assessment with one Iceberg table while another assessment
\* has a table too
C11_Witness ==
    /\ SummaryReturned
    /\ tool_response.summary.table_count = 1
    /\ tool_response.summary.iceberg_table_count = 1
    /\ tool_response.summary.database_count = 1
    /\ Len(glue_tables) = 2
    /\ DOMAIN tool_response.summary.format_breakdown = {"ICEBERG"}

-----------------------------------------------------------------------------
(* Relations between compare_assessments(A, B) and compare_assessments(B, A),*)
(* checked on stores of at most MaxDiffRows database and table rows         *)

MaxDiffRows == 3

DiffRoom == Len(glue_databases) + Len(glue_tables) < MaxDiffRows

NextDiff ==
    \/ SaveAssessment
    \/ DiffRoom /\ SaveGlueDatabase
    \/ DiffRoom /\ SaveGlueTable
    \/ CallCompareAssessments
    \/ ToolReturn

SpecDiff == InitStore /\ [][NextDiff]_vars

\* What compare_assessments returns on the same store for the ids exchanged
Reverse == CompareAssessmentsImpl([assessment_id_1 |-> IdB, assessment_id_2 |-> IdA])

\* C12: the added and removed sets are anti-symmetric: what (A, B) reports as
\* databases_added is what (B, A) reports as databases_removed and the other
\* way round, and the same for tables_added and tables_removed.
C12_DiffAntiSymmetric ==
    CompareSucceeded =>
        LET reverse == Reverse
        IN /\ reverse.success
           /\ Range(Changes.databases_added) = Range(reverse.changes.databases_removed)
           /\ Range(Changes.databases_removed) = Range(reverse.changes.databases_added)
           /\ Range(Changes.tables_added) = Range(reverse.changes.tables_removed)
           /\ Range(Changes.tables_removed) = Range(reverse.changes.tables_added)

\* Two different assessments and, in a database both have, a table only A has
C12_Witness ==
    /\ CompareSucceeded
    /\ IdA # IdB
    /\ Changes.tables_removed # <<>>
    /\ Reverse.changes.tables_added # <<>>

\* The table rows of an assessment in stored order
TableRowsOf(id) == SelectSeq(glue_tables, LAMBDA t : t.assessment_id = id)

\* C16: summary_changes holds, for database_count, table_count and the total
\* size, the value of the second assessment's summary minus the value of the
\* first one's, each summary being the aggregate of that assessment's rows;
\* exchanging the two ids negates every delta.
C16_SummaryDeltaIsSecondMinusFirst ==
    CompareSucceeded =>
        LET delta == tool_response.summary_changes
            summary1 == tool_response.assessment_1.summary
            summary2 == tool_response.assessment_2.summary
            reverse == Reverse.summary_changes
        IN /\ delta.database_count = summary2.database_count - summary1.database_count
           /\ delta.table_count = summary2.table_count - summary1.table_count
           /\ delta.total_size_gb = summary2.total_estimated_size_gb
                                      - summary1.total_estimated_size_gb
           /\ delta.database_count
                 = Cardinality(DbRows(IdB)) - Cardinality(DbRows(IdA))
           /\ delta.table_count = Len(TableRowsOf(IdB)) - Len(TableRowsOf(IdA))
           /\ delta.total_size_gb
                 = PresentTotal(TableRowsOf(IdB)) - PresentTotal(TableRowsOf(IdA))
           /\ reverse.database_count = 0 - delta.database_count
           /\ reverse.table_count = 0 - delta.table_count
           /\ reverse.total_size_gb = 0 - delta.total_size_gb

\* The second assessment has fewer databases, fewer tables and less data
C16_Witness ==
    /\ CompareSucceeded
    /\ tool_response.summary_changes.database_count < 0
    /\ tool_response.summary_changes.table_count < 0
    /\ tool_response.summary_changes.total_size_gb < 0

-----------------------------------------------------------------------------
(* The normalizer on malformed records, checked under SpecPure              *)

\* C13: _parse_table returns a table descriptor for every raw record, whichever
\* of its fields are absent or malformed, and never raises; what it cannot
\* resolve gets a default: format UNKNOWN, no partition keys, a size that
\* counts as zero, last_updated null.
C13_NormalizerNeverFails ==
    (call.op = "_parse_table" /\ ret # NoReturn) =>
        /\ ret.kind = "table"
        /\ (RawTableType(call.table_dict) = <<>> /\ RawInputFormat(call.table_dict) = <<>>)
              => ret.value.table_format = "UNKNOWN"
        /\ IsNone(call.table_dict.PartitionKeys) => ret.value.partition_keys = <<>>
        /\ ret.value.estimated_size_gb \in {None, Some(0)}
        /\ (IsNone(call.table_dict.UpdateTime) \/ ~call.table_dict.UpdateTime[1].is_datetime)
              => ret.value.last_updated = None

-----------------------------------------------------------------------------
(* Rows with a readiness or a format outside the expected values. The       *)
(* columns are String(20) and String(50) without a check constraint, and    *)
(* save_glue_table stores what it is given.                                 *)

UnexpectedVariants ==
    {[table_format |-> "PARQUET", migration_readiness |-> "BLOCKED",
      estimated_size_gb |-> None, is_iceberg |-> FALSE],
     [table_format |-> "DELTA", migration_readiness |-> "UNKNOWN",
      estimated_size_gb |-> None, is_iceberg |-> FALSE],
     [table_format |-> "ICEBERG", migration_readiness |-> "READY",
      estimated_size_gb |-> None, is_iceberg |-> TRUE]}

\* AssessmentRepository.save_glue_table on such a row
SaveGlueTableAsGiven ==
    /\ tool_request = NoRequest
    /\ \E d \in 1..Len(glue_databases), v \in UnexpectedVariants :
          glue_tables' = Append(glue_tables,
                                [id |-> FreshRowId(glue_tables),
                                 database_id |-> glue_databases[d].id,
                                 assessment_id |-> glue_databases[d].assessment_id,
                                 table_name |-> "t1",
                                 table_format |-> v.table_format,
                                 migration_readiness |-> v.migration_readiness,
                                 estimated_size_gb |-> v.estimated_size_gb,
                                 is_iceberg |-> v.is_iceberg])
    /\ UNCHANGED <<pureVars, assessVars, assessments, glue_databases, toolVars, saveVars,
                   cliVars>>

NextUnexpected ==
    \/ SaveAssessment
    \/ DiffRoom /\ SaveGlueDatabase
    \/ DiffRoom /\ SaveGlueTableAsGiven
    \/ CallGetDatabaseSummary
    \/ ToolReturn

SpecUnexpected == InitStore /\ [][NextUnexpected]_vars

\* C14: when a table whose migration_readiness is none of READY,
\* NEEDS_CONVERSION, UNKNOWN is among the tables aggregated, the aggregation
\* fails with an error and returns no summary.
C14_UnexpectedReadinessSurfacesError ==
    (/\ tool_request.tool = "get_database_summary"
     /\ \E t \in TablesOf(tool_request.arguments.assessment_id) :
           t.migration_readiness \notin ReadinessValues)
        => ~tool_response.success

-----------------------------------------------------------------------------
(* MarkdownReporter: the sections that compute percentages                  *)

\* round(n / total * 100, 1) for total > 0, in tenths of a percent. Python
\* rounds the quotient to the nearest tenth, a tie going to the even tenth.
Percentage(n, total) ==
    LET q == (1000 * n) \div total
        r == (1000 * n) % total
    IN IF 2 * r > total THEN q + 1
       ELSE IF 2 * r < total THEN q
       ELSE IF q % 2 = 0 THEN q ELSE q + 1

\* An executive summary that divides whatever total_tables is
GenerateExecutiveSummaryUnguarded(summary) ==
    IF summary.total_tables = 0
    THEN [kind |-> "raised", exception |-> "ZeroDivisionError"]
    ELSE [kind |-> "text",
          iceberg_pct |-> Percentage(summary.iceberg_tables, summary.total_tables)]
\* _generate_executive_summary: iceberg_pct is 0 unless total_tables > 0
GenerateExecutiveSummary(summary) ==
    [kind |-> "text",
     iceberg_pct |-> IF summary.total_tables > 0
                     THEN Percentage(summary.iceberg_tables, summary.total_tables)
                     ELSE 0]

\* _generate_readiness_breakdown: "No tables found." or the three rows
GenerateReadinessBreakdown(summary) ==
    LET total == summary.total_tables
    IN IF total = 0
       THEN [kind |-> "text", body |-> "No tables found."]
       ELSE [kind |-> "text", body |-> "table",
             rows |-> <<[status |-> "READY", count |-> summary.migration_ready,
                         percentage |-> Percentage(summary.migration_ready, total)],
                        [status |-> "NEEDS_CONVERSION", count |-> summary.needs_conversion,
                         percentage |-> Percentage(summary.needs_conversion, total)],
                        [status |-> "UNKNOWN", count |-> summary.unknown,
                         percentage |-> Percentage(summary.unknown, total)]>>]

\* MarkdownReporter.generate(report, output_path) on the report of
\* run_assessment: the sections, or the exception one of them raises
GenerateMarkdown ==
    /\ pc = "done"
    /\ call = NoCall
    /\ call' = [op |-> "MarkdownReporter.generate"]
    /\ LET executive == GenerateExecutiveSummary(report.summary)
           readiness == GenerateReadinessBreakdown(report.summary)
       IN ret' = IF executive.kind = "raised" THEN executive
                 ELSE IF readiness.kind = "raised" THEN readiness
                 ELSE [kind |-> "markdown",
                       executive_summary |-> executive,
                       readiness_breakdown |-> readiness]
    /\ UNCHANGED <<assessVars, storeVars, toolVars, saveVars, cliVars>>

NextReport ==
    \/ NextSizes
    \/ GenerateMarkdown

SpecReport == InitSizes /\ [][NextReport]_vars

MarkdownGenerated == call.op = "MarkdownReporter.generate"

\* C15 as stated: for an assessment without tables every counter of the
\* summary is zero, the database counter included, the total size is 0, and the
\* report shows 0 percent Iceberg and 'No tables found.' without dividing by
\* zero.
C15_EmptyTableListAllCountersZero ==
    /\ (report.kind = "report" /\ report.tables = <<>>) =>
          /\ report.summary.total_databases = 0
          /\ report.summary.total_tables = 0
          /\ report.summary.total_estimated_size_gb = 0
    /\ (SummaryReturned /\ SummarisedRows = <<>>) =>
          /\ tool_response.summary.database_count = 0
          /\ tool_response.summary.table_count = 0
          /\ tool_response.summary.total_estimated_size_gb = 0
    /\ (MarkdownGenerated /\ report.tables = <<>>) => ret.kind = "markdown"

\* C15, amended: for an assessment without tables every table counter of the
\* summary is zero, both breakdowns are empty and the total size is 0, while
\* the database counter is the number of its databases; the report is
\* generated without a division by zero, with 0 percent Iceberg and the
\* readiness breakdown replaced by 'No tables found.'.
C15_EmptyTableListTableCountersZero ==
    /\ (report.kind = "report" /\ report.tables = <<>>) =>
          /\ report.summary.total_tables = 0
          /\ report.summary.iceberg_tables = 0
          /\ report.summary.migration_ready = 0
          /\ report.summary.needs_conversion = 0
          /\ report.summary.unknown = 0
          /\ report.summary.total_estimated_size_gb = 0
          /\ report.summary.total_databases = Len(report.databases)
    /\ (SummaryReturned /\ SummarisedRows = <<>>) =>
          /\ tool_response.summary.table_count = 0
          /\ tool_response.summary.iceberg_table_count = 0
          /\ tool_response.summary.total_estimated_size_gb = 0
          /\ DOMAIN tool_response.summary.readiness_breakdown = {}
          /\ DOMAIN tool_response.summary.format_breakdown = {}
          /\ tool_response.summary.database_count
                = Cardinality(DbRows(tool_request.arguments.assessment_id))
    /\ MarkdownGenerated =>
          /\ ret.kind = "markdown"
          /\ report.tables = <<>> =>
                /\ ret.executive_summary.iceberg_pct = 0
                /\ ret.readiness_breakdown.body = "No tables found."

\* The report of a catalog that has databases and no table, generated
C15_Witness ==
    /\ MarkdownGenerated
    /\ report.tables = <<>>
    /\ report.databases # <<>>
    /\ ret.kind = "markdown"
    /\ ret.readiness_breakdown.body = "No tables found."

-----------------------------------------------------------------------------
(* Argument handling of the query tools: mcp_server/tools.py                *)

\* Values of a tool argument: a JSON string or a JSON number; None is a key
\* that is missing
StrArg(text) == Some([type |-> "str", text |-> text])
IntArg == Some([type |-> "int"])
IdArgs == {None, StrArg("a1"), StrArg(MissingId), StrArg("invalid-uuid"), IntArg}

Raised(exception) == [kind |-> "raised", exception |-> exception]
Value(v) == [kind |-> "value", value |-> v]

\* UUID(arguments[key]): KeyError for a missing key, AttributeError for a value
\* that is no string (UUID calls hex.replace), ValueError for a badly formed
\* string
UuidArgument(value) ==
    IF IsNone(value) THEN Raised("KeyError")
    ELSE IF value[1].type # "str" THEN Raised("AttributeError")
    ELSE IF value[1].text \notin ArgIds THEN Raised("ValueError")
    ELSE Value(value[1].text)
\* arguments[key]
RequiredArgument(value) ==
    IF IsNone(value) THEN Raised("KeyError") ELSE Value(value[1].text)

\* The keys each tool reads inside its try block, in the order it reads them
ToolParameters ==
    [query_tables_by_readiness |-> <<"assessment_id", "readiness">>,
     get_database_summary |-> <<"assessment_id">>,
     search_tables |-> <<"assessment_id", "pattern">>,
     get_tables_by_format |-> <<"assessment_id", "format">>,
     compare_assessments |-> <<"assessment_id_1", "assessment_id_2">>]
UuidKeys == {"assessment_id", "assessment_id_1", "assessment_id_2"}
IdTools == DOMAIN ToolParameters

\* The arguments a client may send to each tool
ToolArguments(tool) ==
    CASE tool = "query_tables_by_readiness" ->
            [assessment_id : IdArgs, readiness : {None, StrArg("READY")}]
      [] tool = "get_database_summary" -> [assessment_id : IdArgs]
      [] tool = "search_tables" ->
            [assessment_id : IdArgs, pattern : {None, StrArg("t1"), StrArg("%")}]
      [] tool = "get_tables_by_format" ->
            [assessment_id : IdArgs, format : {None, StrArg("ICEBERG")}]
      [] tool = "compare_assessments" ->
            [assessment_id_1 : IdArgs, assessment_id_2 : IdArgs]

\* The statements of the try block, evaluated in order
ParseArguments(tool, arguments) ==
    LET keys == ToolParameters[tool]
    IN [i \in 1..Len(keys) |->
           IF keys[i] \in UuidKeys
           THEN UuidArgument(arguments[keys[i]])
           ELSE RequiredArgument(arguments[keys[i]])]

\* "size_gb": float(table.estimated_size_gb) if table.estimated_size_gb else None
SizeGb(estimated_size_gb) ==
    IF IsNone(estimated_size_gb) \/ estimated_size_gb = Some(0)
    THEN None
    ELSE Some(ToFloat(estimated_size_gb[1]))

\* The entry of a table in the listings
TableEntry(table) ==
    [id |-> table.id,
     database_name |->
         Head(SelectSeq(glue_databases, LAMBDA d : d.id = table.database_id)).database_name,
     table_name |-> table.table_name,
     format |-> table.table_format,
     size_gb |-> SizeGb(table.estimated_size_gb),
     is_iceberg |-> table.is_iceberg,
     readiness |-> table.migration_readiness]

Listing(rows) == [i \in 1..Len(rows) |-> TableEntry(rows[i])]

\* AssessmentRepository.query_tables_by_readiness
QueryTablesByReadiness(assessment_id, readiness) ==
    SelectSeq(glue_tables, LAMBDA t : /\ t.assessment_id = assessment_id
                                      /\ t.migration_readiness = readiness)
\* AssessmentRepository.query_tables_by_format
QueryTablesByFormat(assessment_id, table_format) ==
    SelectSeq(glue_tables, LAMBDA t : /\ t.assessment_id = assessment_id
                                      /\ t.table_format = table_format)

\* column LIKE pattern, for the patterns sent here: "%" matches every name and
\* a pattern without wildcard matches the equal name
SqlLike(text, pattern) == pattern = "%" \/ text = pattern

\* The query of search_tables_impl
SearchTables(assessment_id, pattern) ==
    SelectSeq(glue_tables,
              LAMBDA t : /\ t.assessment_id = assessment_id
                         /\ \/ SqlLike(t.table_name, pattern)
                            \/ TableEntry(t).database_name = pattern)


\* What a tool does once its arguments are parsed
ToolBody(tool, parsed) ==
    CASE tool = "query_tables_by_readiness" ->
            LET rows == QueryTablesByReadiness(parsed[1].value, parsed[2].value)
            IN [success |-> TRUE, count |-> Len(rows), readiness |-> parsed[2].value,
                tables |-> Listing(rows)]
      [] tool = "get_database_summary" ->
            GetDatabaseSummaryImpl([assessment_id |-> parsed[1].value])
      [] tool = "search_tables" ->
            LET rows == SearchTables(parsed[1].value, parsed[2].value)
            IN [success |-> TRUE, count |-> Len(rows), pattern |-> parsed[2].value,
                tables |-> Listing(rows)]
      [] tool = "get_tables_by_format" ->
            LET rows == QueryTablesByFormat(parsed[1].value, parsed[2].value)
            IN [success |-> TRUE, count |-> Len(rows), format |-> parsed[2].value,
                total_size_gb |-> ToFloat(SumPresentSizes(rows)),
                tables |-> Listing(rows)]
      [] tool = "compare_assessments" ->
            CompareAssessmentsImpl([assessment_id_1 |-> parsed[1].value,
                                    assessment_id_2 |-> parsed[2].value])

\* The exceptions the try block of a tool turns into a failure result
CaughtExceptions == {"KeyError", "ValueError"}

\* A tool implementation: the exception it raises, the failure result for bad
\* arguments, or the result of its body. queried tells whether the repository
\* was used.
ToolImpl(tool, arguments) ==
    LET parsed == ParseArguments(tool, arguments)
        failed == SelectSeq(parsed, LAMBDA a : a.kind = "raised")
    IN IF failed = <<>>
       THEN [queried |-> TRUE, response |-> ToolBody(tool, parsed)]
       ELSE IF Head(failed).exception \in CaughtExceptions
       THEN [queried |-> FALSE,
             response |-> [success |-> FALSE, error |-> Head(failed).exception]]
       ELSE [queried |-> FALSE, response |-> Head(failed)]

\* call_tool(name, arguments) for the tools that take an assessment id
CallTool ==
    /\ tool_request = NoRequest
    /\ \E tool \in IdTools :
          \E arguments \in ToolArguments(tool) :
             LET outcome == ToolImpl(tool, arguments)
             IN /\ tool_request' = [tool |-> tool, arguments |-> arguments,
                                    queried |-> outcome.queried]
                /\ tool_response' = outcome.response
    /\ UNCHANGED <<pureVars, assessVars, storeVars, saveVars, cliVars>>

NextArgs ==
    \/ SaveAssessment
    \/ DiffRoom /\ SaveGlueDatabase
    \/ DiffRoom /\ SaveGlueTable
    \/ CallTool
    \/ ToolReturn

SpecArgs == InitStore /\ [][NextArgs]_vars

\* A required key is missing, or an assessment id is not a well-formed UUID
BadArguments ==
    \E i \in 1..Len(ToolParameters[tool_request.tool]) :
        LET key == ToolParameters[tool_request.tool][i]
            value == tool_request.arguments[key]
        IN \/ value = None
           \/ /\ key \in UuidKeys
              /\ \/ value[1].type # "str"
                 \/ value[1].text = "invalid-uuid"

\* C17: a query tool called with a required argument missing, or with an
\* assessment id that is not a valid UUID, returns a failure result (success
\* false with an error text), raises nothing and does not use the repository.
C17_BadArgumentsGiveStructuredFailure ==
    (tool_request.tool \in IdTools /\ "queried" \in DOMAIN tool_request /\ BadArguments) =>
        /\ "success" \in DOMAIN tool_response
        /\ ~tool_response.success
        /\ "error" \in DOMAIN tool_response
        /\ ~tool_request.queried

-----------------------------------------------------------------------------
(* The command 'assess glue-catalog': cli.py                                *)

\* The options and environment of an invocation. DATABASE_URL is unset, empty
\* or set; it is read only with --save-to-db.
CliInvocations ==
    {[save_to_db |-> TRUE, database_url |-> u] :
        u \in {None, Some(""), Some("postgresql://host/db")}}
      \cup {[save_to_db |-> FALSE, database_url |-> None]}

MsgNoDatabaseUrl == "Error: DATABASE_URL environment variable not set."
MsgSaveFailed == "Error: Failed to save to database"
JsonFile == "glue-catalog-assessment.json"
MarkdownFile == "glue-catalog-assessment.md"

InitCli ==
    /\ call = NoCall
    /\ ret = NoReturn
    /\ AssessIdle
    /\ StoreIdle
    /\ SaveIdle
    /\ \E invocation \in CliInvocations :
          cli = [pc |-> "check", save_to_db |-> invocation.save_to_db,
                 database_url |-> invocation.database_url,
                 steps |-> <<>>, files |-> {}, exit_code |-> None, stderr |-> <<>>]

\* The check that lets every invocation pass
CheckDatabaseUrlSkipped ==
    /\ cli.pc = "check"
    /\ cli' = [cli EXCEPT !.pc = "mkdir"]
    /\ UNCHANGED <<pureVars, assessVars, storeVars, toolVars, saveVars>>
\* if save_to_db and not os.getenv("DATABASE_URL"): echo the error, click.Abort()
CheckDatabaseUrl ==
    /\ cli.pc = "check"
    /\ cli' = IF cli.save_to_db /\ Falsy(cli.database_url)
              THEN [cli EXCEPT !.pc = "exited", !.exit_code = Some(1),
                               !.stderr = Append(@, MsgNoDatabaseUrl)]
              ELSE [cli EXCEPT !.pc = "mkdir"]
    /\ UNCHANGED <<pureVars, assessVars, storeVars, toolVars, saveVars>>

\* output_dir.mkdir(parents=True, exist_ok=True)
MakeOutputDir ==
    /\ cli.pc = "mkdir"
    /\ cli' = [cli EXCEPT !.pc = "create_assessor", !.steps = Append(@, "mkdir")]
    /\ UNCHANGED <<pureVars, assessVars, storeVars, toolVars, saveVars>>

\* assessor = GlueCatalogAssessor(region=region, profile=profile)
CreateAssessor ==
    /\ cli.pc = "create_assessor"
    /\ cli' = [cli EXCEPT !.pc = "run_assessment", !.steps = Append(@, "create_assessor")]
    /\ UNCHANGED <<pureVars, assessVars, storeVars, toolVars, saveVars>>

\* report = assessor.run_assessment(): the call
CallRunAssessment ==
    /\ cli.pc = "run_assessment"
    /\ pc = "idle"
    /\ pc' = "list_databases"
    /\ cli' = [cli EXCEPT !.pc = "assessing", !.steps = Append(@, "run_assessment")]
    /\ UNCHANGED <<pureVars, databases, db_index, tables, all_tables, next_token,
                   pages_fetched, glue_calls, report, storeVars, toolVars, saveVars>>

\* run_assessment has returned; with --save-to-db the call of
\* _save_assessment_to_db(report, region, profile) on the AssessmentReport
ReturnFromRunAssessment ==
    /\ cli.pc = "assessing"
    /\ pc = "done"
    /\ IF cli.save_to_db
       THEN /\ cli' = [cli EXCEPT !.pc = "saving", !.steps = Append(@, "save")]
            /\ save_pc' = "create_session"
            /\ save_report' = [shape |-> "AssessmentReport"]
       ELSE /\ cli' = [cli EXCEPT !.pc = "json"]
            /\ UNCHANGED <<save_pc, save_report>>
    /\ UNCHANGED <<pureVars, assessVars, storeVars, toolVars, save_db, save_table,
                   session, save_result>>

\* A command that goes on to the reports whatever the save did
ReturnFromSaveIgnoringFailure ==
    /\ cli.pc = "saving"
    /\ save_pc = "done"
    /\ cli' = [cli EXCEPT !.pc = "json"]
    /\ UNCHANGED <<pureVars, assessVars, storeVars, toolVars, saveVars>>

\* _save_assessment_to_db has returned the id or raised ClickException, which
\* ends the command with exit code 1
ReturnFromSave ==
    /\ cli.pc = "saving"
    /\ save_pc = "done"
    /\ cli' = IF save_result = ClickException
              THEN [cli EXCEPT !.pc = "exited", !.exit_code = Some(1),
                               !.stderr = Append(@, MsgSaveFailed)]
              ELSE [cli EXCEPT !.pc = "json"]
    /\ UNCHANGED <<pureVars, assessVars, storeVars, toolVars, saveVars>>

\* json_reporter.generate(report, json_path)
GenerateJsonFile ==
    /\ cli.pc = "json"
    /\ cli' = [cli EXCEPT !.pc = "markdown", !.steps = Append(@, "json"),
                          !.files = @ \cup {JsonFile}]
    /\ UNCHANGED <<pureVars, assessVars, storeVars, toolVars, saveVars>>

\* md_reporter.generate(report, md_path), and the command ends
GenerateMarkdownFile ==
    /\ cli.pc = "markdown"
    /\ cli' = [cli EXCEPT !.pc = "exited", !.steps = Append(@, "markdown"),
                          !.files = @ \cup {MarkdownFile}, !.exit_code = Some(0)]
    /\ UNCHANGED <<pureVars, assessVars, storeVars, toolVars, saveVars>>

\* The command, the assessor it runs and the save it runs. The report handed to
\* the save is an AssessmentReport, on which the save gets no further than
\* building the Assessment.
NextCli ==
    \/ CheckDatabaseUrl
    \/ MakeOutputDir
    \/ CreateAssessor
    \/ CallRunAssessment
    \/ NextAssess
    \/ ReturnFromRunAssessment
    \/ CreateSession
    \/ BuildAssessment
    \/ Rollback
    \/ CloseSession
    \/ ReturnFromSave
    \/ GenerateJsonFile
    \/ GenerateMarkdownFile

SpecCli == InitCli /\ [][NextCli]_vars

\* C18: with --save-to-db and DATABASE_URL not set the command does nothing but
\* fail: no step is taken (the assessor is not created, run_assessment is not
\* called), nothing is stored, no file is written, and it ends with a non-zero
\* exit code and the DATABASE_URL message.
C18_MissingDatabaseUrlFailsFirst ==
    (cli.pc # "none" /\ cli.save_to_db /\ cli.database_url = None) =>
        /\ cli.steps = <<>>
        /\ cli.pc \in {"check", "exited"}
        /\ pc = "idle" /\ report = NoReport
        /\ save_pc = "idle"
        /\ assessments = <<>> /\ glue_databases = <<>> /\ glue_tables = <<>>
        /\ cli.files = {}
        /\ cli.pc = "exited" =>
              /\ cli.exit_code # None /\ cli.exit_code # Some(0)
              /\ cli.stderr = <<MsgNoDatabaseUrl>>

\* The command has ended for --save-to-db without DATABASE_URL
C18_Witness ==
    /\ cli.pc = "exited"
    /\ cli.save_to_db
    /\ cli.database_url = None
    /\ cli.exit_code = Some(1)

-----------------------------------------------------------------------------
(* delete_assessment: persistence/repository.py, with the cascades of        *)
(* persistence/models.py                                                    *)

\* A delete that leaves the child rows where they are
WithoutChildrenOfKept(rows, assessment_id) == rows
\* cascade="all, delete-orphan" on Assessment.glue_databases and
\* Assessment.glue_tables: the child rows of the assessment go with it
WithoutChildrenOf(rows, assessment_id) ==
    SelectSeq(rows, LAMBDA r : r.assessment_id # assessment_id)

\* AssessmentRepository.delete_assessment(assessment_id), called while nothing
\* else is under way; before is the store as the call found it
DeleteAssessment ==
    /\ call = NoCall
    /\ tool_request = NoRequest
    /\ \E assessment_id \in ArgIds :
          /\ call' = [op |-> "delete_assessment", assessment_id |-> assessment_id,
                      before |-> [assessments |-> assessments,
                                  glue_databases |-> glue_databases,
                                  glue_tables |-> glue_tables]]
          /\ IF IsNone(GetAssessment(assessment_id))
             THEN /\ ret' = [kind |-> "bool", value |-> FALSE]
                  /\ UNCHANGED storeVars
             ELSE /\ assessments' = SelectSeq(assessments,
                                              LAMBDA a : a.id # assessment_id)
                  /\ glue_databases' = WithoutChildrenOf(glue_databases, assessment_id)
                  /\ glue_tables' = WithoutChildrenOf(glue_tables, assessment_id)
                  /\ ret' = [kind |-> "bool", value |-> TRUE]
    /\ UNCHANGED <<assessVars, toolVars, saveVars, cliVars>>

\* The caller has the result of the repository call
ReturnFromRepository ==
    /\ call # NoCall
    /\ call' = NoCall
    /\ ret' = NoReturn
    /\ UNCHANGED <<assessVars, storeVars, toolVars, saveVars, cliVars>>

NextDelete ==
    \/ call = NoCall /\ SaveAssessment
    \/ call = NoCall /\ DiffRoom /\ SaveGlueDatabase
    \/ call = NoCall /\ DiffRoom /\ SaveGlueTable
    \/ DeleteAssessment
    \/ ReturnFromRepository

SpecDelete == InitStore /\ [][NextDelete]_vars

Deleted == call.op = "delete_assessment"

-----------------------------------------------------------------------------
(* get_latest_assessment: persistence/repository.py and mcp_server/tools.py  *)

\* Assessment.timestamp takes the instants 1..MaxTimestamp
MaxTimestamp == 2
Regions == {"us-east-1", "eu-west-1"}
AccountIds == {"111111111111", "222222222222"}

\* AssessmentRepository.save_assessment of an Assessment built with a
\* timestamp, a region and an account id
SaveDatedAssessment ==
    /\ tool_request = NoRequest
    /\ call = NoCall
    /\ Len(assessments) < Len(AssessmentIds)
    /\ \E timestamp \in 1..MaxTimestamp, region \in Regions, account_id \in AccountIds :
          assessments' = Append(assessments,
                                [id |-> FreshAssessmentId,
                                 status |-> "completed",
                                 timestamp |-> timestamp,
                                 region |-> region,
                                 aws_account_id |-> account_id])
    /\ UNCHANGED <<glue_databases, glue_tables>>
    /\ UNCHANGED <<pureVars, assessVars, toolVars, saveVars, cliVars>>

\* if region: / if account_id: a filter that is None or empty is not applied
Truthy(filter) == filter # None /\ filter # Some("")

\* The rows left by the filter_by calls of get_latest_assessment
FilteredAssessments(region, account_id) ==
    {a \in Range(assessments) :
        /\ Truthy(region) => a.region = region[1]
        /\ Truthy(account_id) => a.aws_account_id = account_id[1]}

\* An ordering that puts the oldest row first
FirstByTimestampAscending(rows) ==
    {a \in rows : \A b \in rows : a.timestamp <= b.timestamp}
\* order_by(desc(Assessment.timestamp)).first(): the rows that can come first;
\* the database orders rows of equal timestamp as it pleases
FirstByTimestampDescending(rows) ==
    {a \in rows : \A b \in rows : b.timestamp <= a.timestamp}

\* AssessmentRepository.get_latest_assessment(region, account_id): the results
\* it can give
GetLatestAssessment(region, account_id) ==
    LET first == FirstByTimestampDescending(FilteredAssessments(region, account_id))
    IN IF first = {} THEN {None} ELSE {Some(a) : a \in first}

\* str() of an optional string inside an f-string
FormatOptional(x) == IF x = None THEN "None" ELSE x[1]
\* f"No assessment found for region={region}, account_id={account_id}"
NoAssessmentFound(region, account_id) ==
    "No assessment found for region=" \o FormatOptional(region)
        \o ", account_id=" \o FormatOptional(account_id)

\* What arguments.get("region") and arguments.get("account_id") can give
RegionArguments == {None, Some("")} \cup {Some(r) : r \in Regions}
AccountIdArguments == {None} \cup {Some(a) : a \in AccountIds}

\* get_latest_assessment_impl, given the row the repository returned;
\* tool_version and services are not stored by the model
GetLatestAssessmentImpl(arguments, assessment) ==
    IF IsNone(assessment)
    THEN [success |-> FALSE,
          error |-> NoAssessmentFound(arguments.region, arguments.account_id)]
    ELSE [success |-> TRUE,
          assessment |-> [id |-> assessment[1].id,
                          timestamp |-> assessment[1].timestamp,
                          region |-> assessment[1].region,
                          account_id |-> assessment[1].aws_account_id,
                          status |-> assessment[1].status,
                          summary |-> GetDatabaseSummary(assessment[1].id)]]

\* call_tool("get_latest_assessment", arguments); latest is what the
\* repository returned to the tool
CallGetLatestAssessment ==
    /\ tool_request = NoRequest
    /\ call = NoCall
    /\ \E region \in RegionArguments, account_id \in AccountIdArguments :
          LET arguments == [region |-> region, account_id |-> account_id]
          IN \E assessment \in GetLatestAssessment(region, account_id) :
                /\ tool_request' = [tool |-> "get_latest_assessment",
                                    arguments |-> arguments,
                                    latest |-> assessment]
                /\ tool_response' = GetLatestAssessmentImpl(arguments, assessment)
    /\ UNCHANGED <<pureVars, assessVars, storeVars, saveVars, cliVars>>

NextLatest ==
    \/ SaveDatedAssessment
    \/ DeleteAssessment
    \/ ReturnFromRepository
    \/ CallGetLatestAssessment
    \/ ToolReturn

SpecLatest == InitStore /\ [][NextLatest]_vars

LatestAsked == tool_request.tool = "get_latest_assessment"

C20_WitnessNone ==
    /\ LatestAsked
    /\ tool_request.latest = None
    /\ assessments # <<>>

-----------------------------------------------------------------------------
(* The listing loops of list_databases and list_tables                      *)

\* run_assessment over a catalog whose tables are of two kinds
PagedRawTables == {IcebergS3Raw, ParquetRaw}
NextPaging ==
    \/ GetDatabasesPage
    \/ StartListTables
    \/ GetTablesPageOf(PagedRawTables)
    \/ ExtendAllTables
    \/ BuildReport

\* The scheduler of the listing loops: a loop that can take a step takes it
SpecPaging == InitAssess /\ [][NextPaging]_vars /\ WF_vars(NextPaging)

\* The pages the Glue client has served to the loop under way
PagesServed ==
    [i \in 1..Len(glue_calls) |->
        IF pc \in {"list_tables", "extend"}
        THEN glue_calls[i].TableList ELSE glue_calls[i].DatabaseList]
\* The entries of all those pages, in page order
RECURSIVE EntriesServed(_)
EntriesServed(pages) ==
    IF pages = <<>> THEN <<>> ELSE Head(pages) \o EntriesServed(Tail(pages))

\* The loop of list_databases or list_tables is between two calls
LoopRunning == pc \in {"list_databases", "list_tables"}
\* The loop has ended and its result is at hand
LoopEnded == (pc = "next_database" /\ db_index = 1) \/ pc = "extend"

\* What the loop has made of the pages so far
PagingSound ==
    (LoopRunning \/ LoopEnded) =>
        /\ Len(glue_calls) = pages_fetched
        /\ glue_calls # <<>> => glue_calls[1].NextTokenSent = None
        /\ \A i \in 2..Len(glue_calls) :
              /\ ~Falsy(glue_calls[i - 1].NextToken)
              /\ glue_calls[i].NextTokenSent = glue_calls[i - 1].NextToken
        /\ LoopRunning /\ glue_calls # <<>> => ~Falsy(glue_calls[Len(glue_calls)].NextToken)
        /\ LoopEnded => /\ glue_calls # <<>>
                     /\ Falsy(glue_calls[Len(glue_calls)].NextToken)
        /\ LET entries == EntriesServed(PagesServed)
           IN IF pc \in {"list_tables", "extend"}
              THEN tables = [i \in 1..Len(entries) |->
                                ParseTable(databases[db_index].database_name, entries[i])]
              ELSE /\ Len(databases) = Len(entries)
                   /\ \A i \in 1..Len(entries) :
                         databases[i].database_name = entries[i]

\* C21: list_databases and list_tables send no token with the first call and
\* with each later call the token of the page before, stop after the first
\* page without a (non-empty) token, make one call per page, return the
\* entries of all pages once each in page order, and come to an end when the
\* catalog has finitely many pages.
C21_PaginationFollowsTokens ==
    /\ []PagingSound
    /\ (pc = "list_databases") ~> (pc = "next_database")
    /\ (pc = "list_tables") ~> (pc = "extend")

\* list_tables has returned two tables it got over two pages, the second
\* asked for with the token of the first
C21_Witness ==
    /\ pc = "extend"
    /\ Len(glue_calls) = 2
    /\ glue_calls[2].NextTokenSent = Some("page2")
    /\ Len(glue_calls[1].TableList) = 1
    /\ Len(glue_calls[2].TableList) = 1
    /\ Len(tables) = 2

-----------------------------------------------------------------------------
(* table_count and the order of report.tables, checked under SpecAssess     *)

\* The number of tables of the databases listed before the i-th
RECURSIVE TablesBefore(_, _)
TablesBefore(dbs, i) ==
    IF i <= 1 THEN 0 ELSE TablesBefore(dbs, i - 1) + dbs[i - 1].table_count

\* The tables ts are, database by database in the order of dbs[1..n], those
\* counted by table_count
CountedInOrder(dbs, n, ts) ==
    /\ TablesBefore(dbs, n + 1) = Len(ts)
    /\ \A i \in 1..n :
          \A k \in 1..dbs[i].table_count :
             ts[TablesBefore(dbs, i) + k].database_name = dbs[i].database_name

\* C22: while run_assessment runs, a database's table_count is 0 until its
\* tables have been listed and from then on the number of its tables; in the
\* report the counts add up to summary.total_tables and report.tables holds
\* the tables of the databases one database after the other, in listing order.
C22_TableCountPerDatabase ==
    /\ pc \in {"list_databases", "next_database", "list_tables", "extend"} =>
          /\ \A i \in 1..Len(databases) :
                (db_index = 0 \/ i >= db_index) => databases[i].table_count = 0
          /\ db_index > 0 => CountedInOrder(databases, db_index - 1, all_tables)
    /\ report.kind = "report" =>
          /\ CountedInOrder(report.databases, Len(report.databases), report.tables)
          /\ TablesBefore(report.databases, Len(report.databases) + 1)
                = report.summary.total_tables

\* A report over two databases with one table each
C22_Witness ==
    /\ report.kind = "report"
    /\ Len(report.databases) = 2
    /\ report.databases[1].table_count = 1
    /\ report.databases[2].table_count = 1
    /\ report.databases[1].database_name # report.databases[2].database_name
    /\ report.tables[1].table_name # report.tables[2].table_name

-----------------------------------------------------------------------------
(* The database_count delta against the change-set, checked under SpecDiff  *)

\* C23: in every successful comparison the database_count delta of
\* summary_changes is the number of databases_added minus the number of
\* databases_removed.
C23_DatabaseDeltaMatchesChangeSet ==
    CompareSucceeded =>
        tool_response.summary_changes.database_count
            = Len(Changes.databases_added) - Len(Changes.databases_removed)

\* C24: comparing a stored assessment with itself succeeds, every list of
\* changes is empty and every summary delta is 0.
C24_SelfComparisonIsEmpty ==
    (tool_request.tool = "compare_assessments" /\ IdA = IdB /\ Stored(IdA)) =>
        /\ tool_response.success
        /\ Changes.databases_added = <<>>
        /\ Changes.databases_removed = <<>>
        /\ Changes.tables_added = <<>>
        /\ Changes.tables_removed = <<>>
        /\ Changes.tables_modified = <<>>
        /\ tool_response.summary_changes.database_count = 0
        /\ tool_response.summary_changes.table_count = 0
        /\ tool_response.summary_changes.total_size_gb = 0

\* An assessment that stores the same table name twice in one database, with
\* different formats, is compared with itself
C24_Witness ==
    /\ CompareSucceeded
    /\ IdA = IdB
    /\ \E t, u \in Range(glue_tables) :
          /\ t.assessment_id = IdA /\ u.assessment_id = IdA
          /\ t.database_id = u.database_id
          /\ t.table_name = u.table_name
          /\ t.table_format # u.table_format

-----------------------------------------------------------------------------
(* Qualified table names in the change lists                                *)

\* Bound on the rows of glue_databases and glue_tables together
MaxQualifiedRows == 6

\* Names Glue accepts: a database name or a table name may hold a '.'
DottedDbNames == {"a", "a.b"}
DottedTableNames == {"b.c", "c"}

QualifiedRoom == Len(glue_databases) + Len(glue_tables) < MaxQualifiedRows

\* AssessmentRepository.save_glue_database, for the assessment saved last
SaveGlueDatabaseOfLast ==
    /\ tool_request = NoRequest
    /\ QualifiedRoom
    /\ assessments # <<>>
    /\ \E name \in DottedDbNames :
          glue_databases' = Append(glue_databases,
                                   [id |-> FreshRowId(glue_databases),
                                    assessment_id |-> assessments[Len(assessments)].id,
                                    database_name |-> name])
    /\ UNCHANGED <<pureVars, assessVars, assessments, glue_tables, toolVars, saveVars,
                   cliVars>>

\* AssessmentRepository.save_glue_table, for the database saved last
SaveGlueTableOfLast ==
    /\ tool_request = NoRequest
    /\ QualifiedRoom
    /\ glue_databases # <<>>
    /\ glue_databases[Len(glue_databases)].assessment_id = assessments[Len(assessments)].id
    /\ \E name \in DottedTableNames :
          LET database == glue_databases[Len(glue_databases)]
          IN glue_tables' = Append(glue_tables,
                                   [id |-> FreshRowId(glue_tables),
                                    database_id |-> database.id,
                                    assessment_id |-> database.assessment_id,
                                    table_name |-> name,
                                    table_format |-> "PARQUET",
                                    migration_readiness |-> "NEEDS_CONVERSION",
                                    estimated_size_gb |-> None,
                                    is_iceberg |-> FALSE])
    /\ UNCHANGED <<pureVars, assessVars, assessments, glue_databases, toolVars, saveVars,
                   cliVars>>

NextQualified ==
    \/ SaveAssessment
    \/ SaveGlueDatabaseOfLast
    \/ SaveGlueTableOfLast
    \/ CallCompareAssessments
    \/ ToolReturn

SpecQualified == InitStore /\ [][NextQualified]_vars

\* No element occurs twice in the list
NoRepeats(list) == Cardinality(Range(list)) = Len(list)

\* C25: in every successful comparison databases_added and databases_removed
\* are disjoint; tables_added, tables_removed and the names of tables_modified
\* are pairwise disjoint, and no qualified name occurs twice in one of them.
C25_ChangeListsDisjoint ==
    CompareSucceeded =>
        LET modified == {m.name : m \in Range(Changes.tables_modified)}
        IN /\ Range(Changes.databases_added) \cap Range(Changes.databases_removed) = {}
           /\ Range(Changes.tables_added) \cap Range(Changes.tables_removed) = {}
           /\ Range(Changes.tables_added) \cap modified = {}
           /\ Range(Changes.tables_removed) \cap modified = {}
           /\ NoRepeats(Changes.tables_added)
           /\ NoRepeats(Changes.tables_removed)
           /\ Cardinality(modified) = Len(Changes.tables_modified)

-----------------------------------------------------------------------------
(* The readiness counters against the Iceberg counter, under SpecAssess     *)

\* C26: in every report migration_ready <= iceberg_tables <= total_tables and
\* needs_conversion <= total_tables - iceberg_tables; a table is READY only if
\* it is Iceberg at a location starting with 's3://', and NEEDS_CONVERSION
\* only if it is not Iceberg.
C26_ReadyWithinIceberg ==
    report.kind = "report" =>
        LET summary == report.summary
            ts == report.tables
        IN /\ summary.migration_ready <= summary.iceberg_tables
           /\ summary.iceberg_tables <= summary.total_tables
           /\ summary.needs_conversion <= summary.total_tables - summary.iceberg_tables
           /\ summary.migration_ready
                 = Cardinality({i \in 1..Len(ts) : ts[i].migration_readiness = "READY"})
           /\ summary.needs_conversion
                 = Cardinality({i \in 1..Len(ts) :
                                   ts[i].migration_readiness = "NEEDS_CONVERSION"})
           /\ summary.iceberg_tables = Cardinality({i \in 1..Len(ts) : ts[i].is_iceberg})
           /\ \A i \in 1..Len(ts) :
                 /\ ts[i].migration_readiness = "READY" =>
                       /\ ts[i].is_iceberg
                       /\ startswith(ts[i].storage_location, PrefixS3)
                 /\ ts[i].migration_readiness = "NEEDS_CONVERSION" => ~ts[i].is_iceberg

\* A report with an Iceberg table outside S3 and a Parquet table on S3: one
\* Iceberg table, none ready, one to convert
C26_Witness ==
    /\ report.kind = "report"
    /\ report.summary.total_tables = 2
    /\ report.summary.iceberg_tables = 1
    /\ report.summary.migration_ready = 0
    /\ report.summary.needs_conversion = 1
    /\ \E i \in 1..Len(report.tables) :
          /\ ~report.tables[i].is_iceberg
          /\ startswith(report.tables[i].storage_location, PrefixS3)

-----------------------------------------------------------------------------
(* The formats and notes of the tables _parse_table builds, under SpecPure  *)

\* C27: a table built by _parse_table has one of the formats ICEBERG, PARQUET,
\* ORC and UNKNOWN; its notes hold at most one entry, never the 'Unsupported
\* format' one, and are empty exactly when its readiness is READY.
C27_ParsedFormatsAndNotes ==
    (call.op = "_parse_table" /\ ret.kind = "table") =>
        LET table == ret.value
        IN /\ table.table_format \in {"ICEBERG", "PARQUET", "ORC", "UNKNOWN"}
           /\ Len(table.notes) <= 1
           /\ \A i \in 1..Len(table.notes) :
                 table.notes[i] \notin {"Unsupported format: " \o f : f \in Formats}
           /\ table.notes = <<>> <=> table.migration_readiness = "READY"

\* A record with an Avro input format was parsed: its format is UNKNOWN and
\* its one note says so
C27_Witness ==
    /\ call.op = "_parse_table"
    /\ ret.kind = "table"
    /\ RawInputFormat(call.table_dict) = FmtAvro
    /\ ret.value.table_format = "UNKNOWN"
    /\ ret.value.notes = <<"Unknown table format">>

-----------------------------------------------------------------------------
(* Absent and zero sizes in the listings, checked under SpecArgs            *)

\* A listing of tables was returned
TablesListed ==
    /\ tool_request.tool \in {"query_tables_by_readiness", "search_tables",
                              "get_tables_by_format"}
    /\ "tables" \in DOMAIN tool_response

\* C28: in the listings of query_tables_by_readiness, search_tables and
\* get_tables_by_format an entry's size_gb is null exactly when the stored
\* table has no estimated_size_gb; a stored size of 0 is listed as 0.
C28_SizeNullOnlyWhenAbsent ==
    TablesListed =>
        \A i \in 1..Len(tool_response.tables) :
            \A t \in Range(glue_tables) :
                t.id = tool_response.tables[i].id =>
                    (tool_response.tables[i].size_gb = None
                        <=> t.estimated_size_gb = None)

-----------------------------------------------------------------------------
(* The sessions of the call_tool handler and of _save_assessment_to_db      *)

\* Tool names a client may send; the last one is not a tool of the server
ToolNames == IdTools \cup {"get_latest_assessment", "no_such_tool"}
\* What os.getenv("DATABASE_URL") can give
DatabaseUrls == {None, Some(""), Some("postgresql://host/db")}

\* The arguments a client may send with each name
HandlerArguments(name) ==
    IF name \in IdTools THEN ToolArguments(name)
    ELSE [region : RegionArguments, account_id : AccountIdArguments]

\* The try block of call_tool: the results the routed implementation can
\* return and the exceptions that can leave the block
RouteOutcomes(name, arguments) ==
    IF name \in IdTools THEN {ToolImpl(name, arguments).response}
    ELSE IF name = "get_latest_assessment"
    THEN {GetLatestAssessmentImpl(arguments, assessment) :
             assessment \in GetLatestAssessment(arguments.region, arguments.account_id)}
    ELSE {Raised("ValueError")}

\* The MCP server calls call_tool(name, arguments)
ReceiveToolCall ==
    /\ tool_request = NoRequest
    /\ save_pc = "idle"
    /\ \E name \in ToolNames, database_url \in DatabaseUrls :
          \E arguments \in HandlerArguments(name) :
             tool_request' = [tool |-> name, arguments |-> arguments,
                              database_url |-> database_url,
                              pc |-> "check_database_url"]
    /\ tool_response' = NoResponse
    /\ session' = NoSession
    /\ UNCHANGED <<pureVars, assessVars, storeVars, save_pc, save_report, save_db,
                   save_table, save_result, cliVars>>

\* if not os.getenv("DATABASE_URL"): raise ValueError(...)
HandlerCheckDatabaseUrl ==
    /\ tool_request # NoRequest
    /\ tool_request.pc = "check_database_url"
    /\ IF Truthy(tool_request.database_url)
       THEN /\ tool_request' = [tool_request EXCEPT !.pc = "create_session"]
            /\ UNCHANGED tool_response
       ELSE /\ tool_request' = [tool_request EXCEPT !.pc = "ended"]
            /\ tool_response' = Raised("ValueError")
    /\ UNCHANGED <<pureVars, assessVars, storeVars, saveVars, cliVars>>

\* engine = get_engine(); session = SessionLocal()
HandlerCreateSession ==
    /\ tool_request # NoRequest
    /\ tool_request.pc = "create_session"
    /\ session' = OpenSession
    /\ tool_request' = [tool_request EXCEPT !.pc = "route"]
    /\ UNCHANGED <<pureVars, assessVars, storeVars, tool_response, save_pc, save_report,
                   save_db, save_table, save_result, cliVars>>

\* A handler whose exceptions leave it at once
HandlerRouteWithoutFinally ==
    /\ tool_request # NoRequest
    /\ tool_request.pc = "route"
    /\ \E outcome \in RouteOutcomes(tool_request.tool, tool_request.arguments) :
          /\ tool_response' = outcome
          /\ tool_request' =
                [tool_request EXCEPT
                    !.pc = IF "kind" \in DOMAIN outcome THEN "ended" ELSE "finally"]
    /\ UNCHANGED <<pureVars, assessVars, storeVars, saveVars, cliVars>>

\* try: the if / elif chain over name; its result is returned, or the
\* exception raised, once the finally clause has run
HandlerRoute ==
    /\ tool_request # NoRequest
    /\ tool_request.pc = "route"
    /\ \E outcome \in RouteOutcomes(tool_request.tool, tool_request.arguments) :
          tool_response' = outcome
    /\ tool_request' = [tool_request EXCEPT !.pc = "finally"]
    /\ UNCHANGED <<pureVars, assessVars, storeVars, saveVars, cliVars>>

\* finally: session.close()
HandlerCloseSession ==
    /\ tool_request # NoRequest
    /\ tool_request.pc = "finally"
    /\ session' = [session EXCEPT !.state = "closed"]
    /\ tool_request' = [tool_request EXCEPT !.pc = "ended"]
    /\ UNCHANGED <<pureVars, assessVars, storeVars, tool_response, save_pc, save_report,
                   save_db, save_table, save_result, cliVars>>

\* call_tool has returned or raised
HandlerEnded == tool_request # NoRequest /\ tool_request.pc = "ended"

InitSessions == InitSave \/ InitStore

NextSessions ==
    \/ NextSave
    \/ save_pc = "idle" /\ assessments = <<>> /\ SaveDatedAssessment
    \/ ReceiveToolCall
    \/ HandlerCheckDatabaseUrl
    \/ HandlerCreateSession
    \/ HandlerRoute
    \/ HandlerCloseSession
    \/ HandlerEnded /\ ToolReturn

SpecSessions == InitSessions /\ [][NextSessions]_vars

\* C29: when call_tool returns or raises, for every tool name and outcome, the
\* session it opened is closed, and with DATABASE_URL unset it raises without
\* having opened one; when _save_assessment_to_db returns or raises its
\* session is closed, and a failure is reported only after rollback().
C29_SessionsAreClosed ==
    /\ HandlerEnded =>
          IF Truthy(tool_request.database_url)
          THEN session.state = "closed"
          ELSE session = NoSession /\ tool_response = Raised("ValueError")
    /\ tool_request = NoRequest /\ save_pc = "idle" => session.state # "open"
    /\ save_pc = "done" =>
          /\ session.state = "closed"
          /\ save_result = ClickException => session.rolled_back

\* call_tool was called with a name that is no tool and has raised ValueError,
\* the session it opened being closed
C29_Witness ==
    /\ HandlerEnded
    /\ tool_request.tool = "no_such_tool"
    /\ tool_response = Raised("ValueError")
    /\ session.state = "closed"

\* _save_assessment_to_db has reported a failure with the session rolled back
\* and closed
C29_WitnessSave ==
    /\ save_pc = "done"
    /\ save_result = ClickException
    /\ session.rolled_back
    /\ session.state = "closed"

-----------------------------------------------------------------------------
(* The order of the steps of 'assess glue-catalog', checked under SpecCli   *)

\* The steps in the order of the command's code, with and without the save
StepOrder(save_to_db) ==
    IF save_to_db
    THEN <<"mkdir", "create_assessor", "run_assessment", "save", "json", "markdown">>
    ELSE <<"mkdir", "create_assessor", "run_assessment", "json", "markdown">>

C30_WitnessNoSave ==
    /\ cli.pc = "exited"
    /\ ~cli.save_to_db
    /\ cli.files = {JsonFile, MarkdownFile}
    /\ cli.exit_code = Some(0)

====
